---- MODULE Spec2Model ----
(***************************************************************************)
(* A model of youtube-looper: the identifier extractor (src/lib/youtube.ts), *)
(* the timestamp and segment codecs and the link builder                   *)
(* (src/lib/segments.ts), the application state controller                 *)
(* (useLooperState) and the playback synchronizer (YouTubePlayer).         *)
(*                                                                         *)
(* Representation.                                                         *)
(*   - Times are integers in milliseconds (1.23 s = 1230).  toFixed(2) is  *)
(*     rounding to a multiple of 10; the model's values avoid exact ties   *)
(*     (a 5 in the millisecond digit), where a binary float decides.       *)
(*   - `null` / `undefined` is the empty sequence None, a present value x  *)
(*     is <<x>>.                                                           *)
(*   - Plain text is a TLA+ string.  A text that `new URL` accepts is a    *)
(*     record of the parts the code reads from the parsed URL: hostname,   *)
(*     pathname (a string, split on "/" as the code does) and the `v`,     *)
(*     `video` and `segments` query parameters.                            *)
(*   - The value of a `segments` parameter is modelled by what JSON.parse  *)
(*     makes of it: a tagged JSON value, or the tag "invalid" when         *)
(*     JSON.parse throws.                                                  *)
(***************************************************************************)
EXTENDS Integers, Sequences, FiniteSets, TLC

None == <<>>
Some(x) == <<x>>

Min(a, b) == IF a <= b THEN a ELSE b
Max(a, b) == IF a >= b THEN a ELSE b

(***************************************************************************)
(* Text helpers: String.prototype.trim, split, padStart(2, "0").           *)
(***************************************************************************)
Char(s, i) == SubSeq(s, i, i)

Trim(s) ==
  LET keep == {i \in 1..Len(s) : Char(s, i) # " "}
  IN  IF keep = {} THEN ""
      ELSE SubSeq(s, CHOOSE i \in keep : \A j \in keep : i <= j,
                     CHOOSE i \in keep : \A j \in keep : i >= j)

Includes(s, c) == \E i \in 1..Len(s) : Char(s, i) = c

RECURSIVE Split(_, _)
Split(s, sep) ==
  LET hits == {i \in 1..Len(s) : Char(s, i) = sep}
  IN  IF hits = {} THEN <<s>>
      ELSE LET k == CHOOSE i \in hits : \A j \in hits : i <= j
           IN  <<SubSeq(s, 1, k - 1)>> \o Split(SubSeq(s, k + 1, Len(s)), sep)

FilterNonEmpty(parts) == SelectSeq(parts, LAMBDA p : p # "")

IndexOf(parts, x) ==
  LET hits == {i \in 1..Len(parts) : parts[i] = x}
  IN  IF hits = {} THEN 0 ELSE CHOOSE i \in hits : \A j \in hits : i <= j

PadStart2(n) == IF n < 10 THEN "0" \o ToString(n) ELSE ToString(n)

DigitChars == {"0", "1", "2", "3", "4", "5", "6", "7", "8", "9"}

DigitVal(c) == CHOOSE d \in 0..9 : ToString(d) = c

IsDigits(s) == Len(s) >= 1 /\ \A i \in 1..Len(s) : Char(s, i) \in DigitChars

RECURSIVE ParseNat(_)
ParseNat(s) ==
  IF Len(s) = 0 THEN 0
  ELSE 10 * ParseNat(SubSeq(s, 1, Len(s) - 1)) + DigitVal(Char(s, Len(s)))

(***************************************************************************)
(* Numbers.  Infinity is the one non-finite value the code can meet        *)
(* (Number("Infinity")); NaN never leaves the function that produces it.   *)
(* Infinity is a multiple of 10 above every modelled time, so that         *)
(* x - Infinity < 0, Infinity - x is large, and Infinity - Infinity (NaN   *)
(* in JavaScript, for which every comparison is false) is 0 and fails the  *)
(* `>= 0.2` and `> ` tests the code applies to it.                         *)
(***************************************************************************)
Infinity == 1000 * 1000 * 1000

IsFinite(n) == n < Infinity /\ n > -Infinity

\* Number(x.toFixed(2)) on milliseconds
Round2(n) ==
  IF ~IsFinite(n) THEN n
  ELSE IF n >= 0 THEN ((n + 5) \div 10) * 10
  ELSE -(((-n + 5) \div 10) * 10)

\* Number(text): [nan |-> TRUE] or [nan |-> FALSE, n |-> milliseconds].
\* Covers optional sign, digits with up to three fractional digits,
\* "Infinity" and the empty string; any other text is NaN.
NaN == [nan |-> TRUE]
Num(n) == [nan |-> FALSE, n |-> n]

Frac3(s) ==
  IF Len(s) = 1 THEN 100 * ParseNat(s)
  ELSE IF Len(s) = 2 THEN 10 * ParseNat(s)
  ELSE ParseNat(SubSeq(s, 1, 3))

UnsignedNumber(s) ==
  IF s = "Infinity" THEN Num(Infinity)
  ELSE IF ~Includes(s, ".") THEN
    IF IsDigits(s) THEN Num(1000 * ParseNat(s)) ELSE NaN
  ELSE LET parts == Split(s, ".")
       IN  IF Len(parts) # 2 THEN NaN
           ELSE IF parts[1] = "" /\ parts[2] = "" THEN NaN
           ELSE IF parts[1] # "" /\ ~IsDigits(parts[1]) THEN NaN
           ELSE IF parts[2] # "" /\ ~IsDigits(parts[2]) THEN NaN
           ELSE Num(1000 * ParseNat(parts[1])
                    + (IF parts[2] = "" THEN 0 ELSE Frac3(parts[2])))

JsNumber(text) ==
  LET s == Trim(text)
  IN  IF s = "" THEN Num(0)
      ELSE IF Char(s, 1) = "-" THEN
        LET u == UnsignedNumber(SubSeq(s, 2, Len(s)))
        IN  IF u.nan THEN NaN ELSE Num(-u.n)
      ELSE IF Char(s, 1) = "+" THEN UnsignedNumber(SubSeq(s, 2, Len(s)))
      ELSE UnsignedNumber(s)

(***************************************************************************)
(* Texts.  PlainText(s) is a text `new URL` rejects (no scheme); UrlText    *)
(* is a text it accepts, given by the parts of the parsed URL.             *)
(***************************************************************************)
PlainText(s) == [kind |-> "text", raw |-> s]

UrlText(hostname, pathname, v, segments) ==
  [kind |-> "url", hostname |-> hostname, pathname |-> pathname,
   v |-> v, segments |-> segments]

IsUrl(text) == text.kind = "url"

(***************************************************************************)
(* Identifier Extractor (src/lib/youtube.ts).                              *)
(***************************************************************************)
IdChars ==
  {"a", "b", "c", "d", "e", "f", "g", "h", "i", "j", "k", "l", "m",
   "n", "o", "p", "q", "r", "s", "t", "u", "v", "w", "x", "y", "z",
   "A", "B", "C", "D", "E", "F", "G", "H", "I", "J", "K", "L", "M",
   "N", "O", "P", "Q", "R", "S", "T", "U", "V", "W", "X", "Y", "Z",
   "_", "-"} \cup DigitChars

\* /^[a-zA-Z0-9_-]{11}$/.test(s)
YOUTUBE_ID_PATTERN(s) == Len(s) = 11 /\ \A i \in 1..11 : Char(s, i) \in IdChars

normalizeYouTubeId(value) ==
  IF value = None \/ value = Some("") THEN None
  ELSE LET trimmed == Trim(value[1])
       IN  IF YOUTUBE_ID_PATTERN(trimmed) THEN Some(trimmed) ELSE None

\* url.hostname.replace(/^www\./, "")
StripWww(hostname) ==
  IF Len(hostname) >= 4 /\ SubSeq(hostname, 1, 4) = "www."
  THEN SubSeq(hostname, 5, Len(hostname)) ELSE hostname

\* off by one: the `embed` segment itself is taken
AfterEmbed_Itself(segments, embedIndex) == Some(segments[embedIndex])

\* segments[embedIndex + 1], undefined past the end
AfterEmbed(segments, embedIndex) ==
  IF embedIndex + 1 <= Len(segments) THEN Some(segments[embedIndex + 1]) ELSE None

\* the candidate found in a URL returned as it is, without the closing validation
extractYouTubeId_Unvalidated(input) ==
  IF ~IsUrl(input) THEN
    IF Trim(input.raw) = "" THEN None ELSE normalizeYouTubeId(Some(Trim(input.raw)))
  ELSE
    LET host == StripWww(input.hostname)
        segments == FilterNonEmpty(Split(input.pathname, "/"))
        embedIndex == IndexOf(segments, "embed")
    IN  IF host = "youtu.be" THEN
          (IF Len(segments) >= 1 THEN Some(segments[1]) ELSE None)
        ELSE IF host = "youtube.com" \/ host = "m.youtube.com" THEN
          IF input.v # None /\ input.v # Some("") THEN input.v
          ELSE IF embedIndex # 0 THEN AfterEmbed(segments, embedIndex)
          ELSE None
        ELSE IF host = "youtube-nocookie.com" THEN
          IF embedIndex # 0 THEN AfterEmbed(segments, embedIndex)
          ELSE None
        ELSE None

extractYouTubeId(input) ==
  IF ~IsUrl(input) THEN
    \* the bare-id test; `new URL` throws on any other plain text
    IF Trim(input.raw) = "" THEN None ELSE normalizeYouTubeId(Some(Trim(input.raw)))
  ELSE
    LET host == StripWww(input.hostname)
        segments == FilterNonEmpty(Split(input.pathname, "/"))
        embedIndex == IndexOf(segments, "embed")
        idFromQuery == normalizeYouTubeId(input.v)
    IN  IF host = "youtu.be" THEN
          normalizeYouTubeId(IF Len(segments) >= 1 THEN Some(segments[1]) ELSE None)
        ELSE IF host = "youtube.com" \/ host = "m.youtube.com" THEN
          IF idFromQuery # None THEN idFromQuery
          ELSE IF embedIndex # 0 THEN normalizeYouTubeId(AfterEmbed(segments, embedIndex))
          ELSE None
        ELSE IF host = "youtube-nocookie.com" THEN
          IF embedIndex # 0 THEN normalizeYouTubeId(AfterEmbed(segments, embedIndex))
          ELSE None
        ELSE None

(***************************************************************************)
(* Timestamp Codec (src/lib/segments.ts).                                  *)
(***************************************************************************)
\* the minutes are not reduced modulo 60 when hours are shown
formatTime_MinutesUnwrapped(value) ==
  IF value = None \/ value[1].nan \/ ~IsFinite(value[1].n) THEN "00:00"
  ELSE
    LET totalSeconds == Max(0, value[1].n \div 1000)
        minutes == totalSeconds \div 60
        seconds == totalSeconds % 60
        hours == minutes \div 60
        remainingMinutes == minutes % 60
    IN  IF hours > 0
        THEN PadStart2(hours) \o ":" \o PadStart2(minutes) \o ":" \o PadStart2(seconds)
        ELSE PadStart2(remainingMinutes) \o ":" \o PadStart2(seconds)

\* value: None for null, else Some(NaN) or Some(Num(milliseconds))
formatTime(value) ==
  IF value = None \/ value[1].nan \/ ~IsFinite(value[1].n) THEN "00:00"
  ELSE
    LET totalSeconds == Max(0, value[1].n \div 1000)
        minutes == totalSeconds \div 60
        seconds == totalSeconds % 60
        hours == minutes \div 60
        remainingMinutes == minutes % 60
    IN  IF hours > 0
        THEN PadStart2(hours) \o ":" \o PadStart2(remainingMinutes) \o ":" \o PadStart2(seconds)
        ELSE PadStart2(remainingMinutes) \o ":" \o PadStart2(seconds)

\* the fraction is written without padStart(2, "0"): 1.05 s becomes "00:01.5"
formatTimestampInput_FractionUnpadded(value) ==
  IF value = None \/ ~IsFinite(value[1]) THEN ""
  ELSE
    LET clamped == Max(0, Round2(value[1]))
        minutes0 == clamped \div 60000
        seconds0 == Round2(clamped - minutes0 * 60000)
        minutes == IF seconds0 >= 60000 THEN minutes0 + (seconds0 \div 60000) ELSE minutes0
        seconds == IF seconds0 >= 60000 THEN Round2(seconds0 % 60000) ELSE seconds0
        secondsInteger == seconds \div 1000
        fractional == Round2(seconds - secondsInteger * 1000)
        fractionAsInt == fractional \div 10
    IN  PadStart2(minutes) \o ":" \o
        (IF fractional > 0
         THEN PadStart2(secondsInteger) \o "." \o ToString(fractionAsInt)
         ELSE PadStart2(secondsInteger))

formatTimestampInput(value) ==
  IF value = None \/ ~IsFinite(value[1]) THEN ""
  ELSE
    LET clamped == Max(0, Round2(value[1]))
        minutes0 == clamped \div 60000
        seconds0 == Round2(clamped - minutes0 * 60000)
        minutes == IF seconds0 >= 60000 THEN minutes0 + (seconds0 \div 60000) ELSE minutes0
        seconds == IF seconds0 >= 60000 THEN Round2(seconds0 % 60000) ELSE seconds0
        secondsInteger == seconds \div 1000
        fractional == Round2(seconds - secondsInteger * 1000)
        fractionAsInt == fractional \div 10
    IN  PadStart2(minutes) \o ":" \o
        (IF fractional > 0
         THEN PadStart2(secondsInteger) \o "." \o PadStart2(fractionAsInt)
         ELSE PadStart2(secondsInteger))

RECURSIVE Pow60(_)
Pow60(k) == IF k = 0 THEN 1 ELSE 60 * Pow60(k - 1)

parseTimestampInput(value) ==
  LET trimmed == Trim(value)
  IN  IF trimmed = "" THEN None
      ELSE IF ~Includes(trimmed, ":") THEN
        LET asNumber == JsNumber(trimmed)
        IN  IF asNumber.nan THEN None ELSE Some(Max(0, asNumber.n))
      ELSE
        LET parts == Split(trimmed, ":")
            n == Len(parts)
            last == JsNumber(parts[n])
            upper == LET F[i \in 0..(n - 1)] ==
                           IF i = 0 THEN 0
                           ELSE F[i - 1] + 1000 * ParseNat(parts[i]) * Pow60(n - i)
                     IN  F[n - 1]
        IN  IF \E i \in 1..n : parts[i] = "" THEN None
            ELSE IF last.nan THEN None
            ELSE IF \E i \in 1..(n - 1) : ~IsDigits(parts[i]) THEN None
            ELSE IF ~IsFinite(last.n) THEN Some(Max(0, last.n))
            ELSE Some(Max(0, Round2(last.n + upper)))

(***************************************************************************)
(* Segment Codec and Link Builder (src/lib/segments.ts).                   *)
(* JSON values: JNum(ms), JStr(s), JNull, JBool(b), JUndefined (a missing  *)
(* property), JObj(label, start, end) with the three properties the code   *)
(* reads, JArr(items); JInvalid is text JSON.parse throws on, JEmpty the   *)
(* empty string.                                                           *)
(***************************************************************************)
JNum(n) == [json |-> "number", n |-> n]
JStr(s) == [json |-> "string", s |-> s]
JBool(b) == [json |-> "boolean", b |-> b]
JNull == [json |-> "null"]
JUndefined == [json |-> "undefined"]
JObj(label, start, end) == [json |-> "object", label |-> label, start |-> start, end |-> end]
JArr(items) == [json |-> "array", items |-> items]
JInvalid == [json |-> "invalid"]
JEmpty == [json |-> "empty"]

\* Number(value) of a parsed JSON value
JsonToNumber(value) ==
  IF value.json = "number" THEN Num(value.n)
  ELSE IF value.json = "string" THEN JsNumber(value.s)
  ELSE IF value.json = "null" THEN Num(0)
  ELSE IF value.json = "boolean" THEN Num(IF value.b THEN 1000 ELSE 0)
  ELSE NaN

\* the clamp to >= 0 dropped
ClampedRounded_NoClamp(numeric) ==
  IF numeric.nan \/ ~IsFinite(numeric.n) THEN None
  ELSE Some(Round2(numeric.n))

\* Number(Math.max(0, numeric).toFixed(2)) of a finite number
ClampedRounded(numeric) ==
  IF numeric.nan \/ ~IsFinite(numeric.n) THEN None
  ELSE Some(Max(0, Round2(numeric.n)))

sanitizeTimestamp(value) == ClampedRounded(JsonToNumber(value))

LoopSegment(id, label, start, end) == [id |-> id, label |-> label, start |-> start, end |-> end]

\* a sort that is not stable: of two segments with equal starts the later comes first
RECURSIVE SortByStart_Unstable(_)
SortByStart_Unstable(segs) ==
  IF Len(segs) <= 1 THEN segs
  ELSE LET rest == SortByStart_Unstable(SubSeq(segs, 1, Len(segs) - 1))
           x == segs[Len(segs)]
           k == Cardinality({i \in 1..Len(rest) : rest[i].start < x.start})
       IN  SubSeq(rest, 1, k) \o <<x>> \o SubSeq(rest, k + 1, Len(rest))

\* Array.prototype.sort((a, b) => a.start - b.start): a stable sort
RECURSIVE SortByStart(_)
SortByStart(segs) ==
  IF Len(segs) <= 1 THEN segs
  ELSE LET rest == SortByStart(SubSeq(segs, 1, Len(segs) - 1))
           x == segs[Len(segs)]
           k == Cardinality({i \in 1..Len(rest) : rest[i].start <= x.start})
       IN  SubSeq(rest, 1, k) \o <<x>> \o SubSeq(rest, k + 1, Len(rest))

DefaultLabel(index) == "Loop " \o ToString(index)

\* start and end are kept in the order given
Sanitized_Unswapped(label, start, end, index) ==
  IF start = None \/ end = None THEN None
  ELSE Some([label |-> IF Trim(label) = "" THEN DefaultLabel(index) ELSE Trim(label),
             start |-> start[1],
             end |-> end[1]])

\* One entry of the parsed array: None when dropped, else the segment without its id.
Sanitized(label, start, end, index) ==
  IF start = None \/ end = None THEN None
  ELSE Some([label |-> IF Trim(label) = "" THEN DefaultLabel(index) ELSE Trim(label),
             start |-> Min(start[1], end[1]),
             end |-> Max(start[1], end[1])])

SanitizeEntry(entry, index) ==
  IF entry.json # "object" THEN None
  ELSE Sanitized(IF entry.label.json = "string" THEN entry.label.s ELSE DefaultLabel(index),
                 sanitizeTimestamp(entry.start), sanitizeTimestamp(entry.end), index)

\* generateSegmentId is called once per surviving entry, in the array's order;
\* firstId is the next unused id.
WithIds(kept, firstId) ==
  [k \in 1..Len(kept) |->
     LoopSegment(firstId + k - 1, kept[k][1].label, kept[k][1].start, kept[k][1].end)]

SanitizeAll(parsed) ==
  SelectSeq([i \in 1..Len(parsed) |-> SanitizeEntry(parsed[i], i)], LAMBDA e : e # None)

\* a top-level object is taken as a list of one entry
parseSegmentsParam_AcceptsObject(value, firstId) ==
  IF value = None \/ value[1].json = "empty" THEN <<>>
  ELSE IF value[1].json = "object" THEN SortByStart(WithIds(SanitizeAll(<<value[1]>>), firstId))
  ELSE IF value[1].json # "array" THEN <<>>
  ELSE SortByStart(WithIds(SanitizeAll(value[1].items), firstId))

parseSegmentsParam(value, firstId) ==
  IF value = None \/ value[1].json = "empty" THEN <<>>
  ELSE IF value[1].json # "array" THEN <<>>
  ELSE SortByStart(WithIds(SanitizeAll(value[1].items), firstId))

\* JSON.stringify of a number: null when it is not finite
JsonNumber(n) == IF IsFinite(n) THEN JNum(n) ELSE JNull

\* the id is written along with label, start and end
serializeSegments_KeepsId(segments) ==
  IF Len(segments) = 0 THEN None
  ELSE Some(JArr([i \in 1..Len(segments) |->
                    [json |-> "object",
                     label |-> JStr(segments[i].label),
                     start |-> JsonNumber(Round2(segments[i].start)),
                     end |-> JsonNumber(Round2(segments[i].end)),
                     id |-> segments[i].id]]))

serializeSegments(segments) ==
  IF Len(segments) = 0 THEN None
  ELSE Some(JArr([i \in 1..Len(segments) |->
                    JObj(JStr(segments[i].label),
                         JsonNumber(Round2(segments[i].start)),
                         JsonNumber(Round2(segments[i].end)))]))

buildVideoLink(videoId, segments) ==
  UrlText("www.youtube.com", "/watch", Some(videoId), serializeSegments(segments))

extractSegmentsFromInput(value, firstId) ==
  IF IsUrl(value) THEN parseSegmentsParam(value.segments, firstId) ELSE <<>>

\* window.location's query parameters the code reads and writes
Location(video, segments) == [video |-> video, segments |-> segments]

\* no segment is selected on load
InitialAppState_SelectsNothing(validVideoId, segmentsFromUrl) ==
  [videoId |-> validVideoId,
   segments |-> segmentsFromUrl,
   inputValue |-> IF validVideoId # None
                  THEN buildVideoLink(validVideoId[1], segmentsFromUrl)
                  ELSE PlainText(""),
   selectedSegmentId |-> None]

InitialAppState(validVideoId, segmentsFromUrl) ==
  [videoId |-> validVideoId,
   segments |-> segmentsFromUrl,
   inputValue |-> IF validVideoId # None
                  THEN buildVideoLink(validVideoId[1], segmentsFromUrl)
                  ELSE PlainText(""),
   selectedSegmentId |-> IF Len(segmentsFromUrl) >= 1
                         THEN Some(segmentsFromUrl[1].id) ELSE None]

getInitialAppState(location, firstId) ==
  InitialAppState(IF location.video # None /\ YOUTUBE_ID_PATTERN(location.video[1])
                  THEN location.video ELSE None,
                  parseSegmentsParam(location.segments, firstId))

(***************************************************************************)
(* Bounds and input domains.                                               *)
(***************************************************************************)
\* ids generateSegmentId may hand out in one session
MaxIds == 3

VideoA == "dQw4w9WgXcQ"
VideoB == "a1B2c3D4-_5"

\* values of a `segments` parameter
PayloadSwapped ==
  JArr(<<JObj(JStr(" B "), JNum(5000), JNum(2000)),
         JNull,
         JObj(JUndefined, JStr("-0.5"), JNum(1234))>>)
PayloadOne == JArr(<<JObj(JStr("A"), JNum(1000), JNum(2000))>>)
PayloadBad == JArr(<<JObj(JStr("x"), JStr("abc"), JNum(1000)), JNum(7000)>>)
\* elements that carry an `id` property, the same one
PayloadIdentified ==
  JArr(<<[json |-> "object", label |-> JStr("A"), start |-> JNum(3000), end |-> JNum(4000), id |-> 7],
         [json |-> "object", label |-> JStr("B"), start |-> JNum(1000), end |-> JNum(2000), id |-> 7]>>)
PayloadExample == JArr(<<JObj(JStr("A"), JNum(5000), JNum(2000))>>)
PayloadMixed ==
  JArr(<<JStr("A"),
         JObj(JStr("  "), JBool(TRUE), JNull),
         JObj(JStr("x"), JNum(1000), JStr("Infinity")),
         JObj(JNum(7000), JStr(" 0.5 "), JNum(-2000))>>)

\* what the user types or pastes into the link field
InputTexts ==
  {PlainText(" " \o VideoA \o " "),
   PlainText("not a video"),
   UrlText("youtu.be", "/abc", None, Some(PayloadOne)),
   UrlText("www.youtube.com", "/watch", Some(VideoB), Some(PayloadSwapped)),
   UrlText("m.youtube.com", "/embed/" \o VideoA, None, Some(JInvalid))}

\* the address the page is opened with
InitialLocations ==
  {Location(None, None),
   Location(Some(VideoA), Some(PayloadOne)),
   Location(Some(VideoA), Some(JObj(JNull, JNull, JNull))),
   Location(Some("abc"), Some(PayloadOne))}

\* what the user types into the draft's start and end fields, and its label
DraftStartTexts == {"0:01", "1.104"}
DraftEndTexts == {"1.104", "0:02"}
DraftLabels == {" Riff "}

\* positions and durations the player reports (milliseconds)
PlayerTimes == {0, 1900}
PlayerDurations == {0, 6000}

\* values of the speed selector's options (1 = 1000)
RateValues == {"1", "1.5"}

\* event.data of the player's stateChange event: playing, paused
PlayerStates == {1, 2}

POLL_INTERVAL_MS == 250
LOOP_THRESHOLD == 150
MIN_SEGMENT_LENGTH == 200

(***************************************************************************)
(* State.  The controller's fields are useLooperState's useState cells;    *)
(* isMounted, apiPromise, playerRef, readyRef and pollTimerRef are the     *)
(* synchronizer's; player is the hosting environment's media player;       *)
(* intervals are the window's active intervals (the closure of each, in    *)
(* the order of installation); commands is what the last step asked of     *)
(* that player.                                                            *)
(***************************************************************************)
VARIABLES
  inputValue, videoId, inputError, loopSegments, selectedSegmentId,
  currentTime, duration, isPlaying, playbackRate, loopingEnabled,
  draftLabel, draftStart, draftEnd, draftStartInput, draftEndInput,
  isInputDirty, location, nextId,
  isMounted, apiPromise, playerRef, readyRef, pollTimerRef,
  player, intervals, commands,
  fnInput, fnOutput

\* the application's state
appVars ==
  <<inputValue, videoId, inputError, loopSegments, selectedSegmentId,
    currentTime, duration, isPlaying, playbackRate, loopingEnabled,
    draftLabel, draftStart, draftEnd, draftStartInput, draftEndInput,
    isInputDirty, location, nextId,
    isMounted, apiPromise, playerRef, readyRef, pollTimerRef,
    player, intervals, commands>>

\* fnInput and fnOutput hold the argument and the result of a library function
\* applied on its own (the codec and extractor specifications below)
vars == <<appVars, fnInput, fnOutput>>

\* the current state as one record; Becomes(s): the next state is s; Is(s): the
\* current state is s
State ==
  [inputValue |-> inputValue, videoId |-> videoId, inputError |-> inputError,
   loopSegments |-> loopSegments, selectedSegmentId |-> selectedSegmentId,
   currentTime |-> currentTime, duration |-> duration, isPlaying |-> isPlaying,
   playbackRate |-> playbackRate, loopingEnabled |-> loopingEnabled,
   draftLabel |-> draftLabel, draftStart |-> draftStart, draftEnd |-> draftEnd,
   draftStartInput |-> draftStartInput, draftEndInput |-> draftEndInput,
   isInputDirty |-> isInputDirty, location |-> location, nextId |-> nextId,
   isMounted |-> isMounted, apiPromise |-> apiPromise, playerRef |-> playerRef,
   readyRef |-> readyRef, pollTimerRef |-> pollTimerRef,
   player |-> player, intervals |-> intervals, commands |-> commands]

Becomes(s) ==
  /\ inputValue' = s.inputValue
  /\ videoId' = s.videoId
  /\ inputError' = s.inputError
  /\ loopSegments' = s.loopSegments
  /\ selectedSegmentId' = s.selectedSegmentId
  /\ currentTime' = s.currentTime
  /\ duration' = s.duration
  /\ isPlaying' = s.isPlaying
  /\ playbackRate' = s.playbackRate
  /\ loopingEnabled' = s.loopingEnabled
  /\ draftLabel' = s.draftLabel
  /\ draftStart' = s.draftStart
  /\ draftEnd' = s.draftEnd
  /\ draftStartInput' = s.draftStartInput
  /\ draftEndInput' = s.draftEndInput
  /\ isInputDirty' = s.isInputDirty
  /\ location' = s.location
  /\ nextId' = s.nextId
  /\ isMounted' = s.isMounted
  /\ apiPromise' = s.apiPromise
  /\ playerRef' = s.playerRef
  /\ readyRef' = s.readyRef
  /\ pollTimerRef' = s.pollTimerRef
  /\ player' = s.player
  /\ intervals' = s.intervals
  /\ commands' = s.commands

Is(s) ==
  /\ inputValue = s.inputValue
  /\ videoId = s.videoId
  /\ inputError = s.inputError
  /\ loopSegments = s.loopSegments
  /\ selectedSegmentId = s.selectedSegmentId
  /\ currentTime = s.currentTime
  /\ duration = s.duration
  /\ isPlaying = s.isPlaying
  /\ playbackRate = s.playbackRate
  /\ loopingEnabled = s.loopingEnabled
  /\ draftLabel = s.draftLabel
  /\ draftStart = s.draftStart
  /\ draftEnd = s.draftEnd
  /\ draftStartInput = s.draftStartInput
  /\ draftEndInput = s.draftEndInput
  /\ isInputDirty = s.isInputDirty
  /\ location = s.location
  /\ nextId = s.nextId
  /\ isMounted = s.isMounted
  /\ apiPromise = s.apiPromise
  /\ playerRef = s.playerRef
  /\ readyRef = s.readyRef
  /\ pollTimerRef = s.pollTimerRef
  /\ player = s.player
  /\ intervals = s.intervals
  /\ commands = s.commands

(***************************************************************************)
(* Derived values of a render (use-looper-state, player-panel,             *)
(* youtube-player).                                                        *)
(***************************************************************************)
selectedSegment(s) ==
  LET hits == {i \in 1..Len(s.loopSegments) :
                 s.selectedSegmentId = Some(s.loopSegments[i].id)}
  IN  IF hits = {} THEN None
      ELSE Some(s.loopSegments[CHOOSE i \in hits : \A j \in hits : i <= j])

RangeOf(segment) ==
  IF segment = None THEN None
  ELSE Some([start |-> segment[1].start, end |-> segment[1].end])

loopRange(s) == RangeOf(selectedSegment(s))

\* the props PlayerPanel hands to YouTubePlayer
IsLoopingProp(enabled, range) == enabled /\ range # None
LoopStartProp(range) == IF range = None THEN None ELSE Some(range[1].start)
LoopEndProp(range) == IF range = None THEN None ELSE Some(range[1].end)

isLooping(s) == IsLoopingProp(s.loopingEnabled, loopRange(s))
loopStart(s) == LoopStartProp(loopRange(s))
loopEnd(s) == LoopEndProp(loopRange(s))

\* the minimum-length guard dropped: any draft with both bounds may be committed
canAddSegment_NoMinimum(s) == s.draftStart # None /\ s.draftEnd # None

canAddSegment(s) ==
  /\ s.draftStart # None
  /\ s.draftEnd # None
  /\ s.draftEnd[1] - s.draftStart[1] >= MIN_SEGMENT_LENGTH

(***************************************************************************)
(* The hosting environment's player and the commands sent to it.  Every    *)
(* call in the code goes through `playerRef.current?.`: it is dropped when *)
(* the synchronizer holds no player.  `by` names the call site.            *)
(***************************************************************************)
NoPlayer == [exists |-> "none", readyFired |-> FALSE, video_id |-> None,
             time |-> 0, duration |-> 0, rate |-> 1000]

SeekTo(seconds, by) == [op |-> "seekTo", seconds |-> seconds, allowSeekAhead |-> TRUE, by |-> by]
PlayVideo(by) == [op |-> "playVideo", by |-> by]
PauseVideo(by) == [op |-> "pauseVideo", by |-> by]
StopVideo(by) == [op |-> "stopVideo", by |-> by]
CueVideoById(id, by) == [op |-> "cueVideoById", videoId |-> id, by |-> by]
Destroy(by) == [op |-> "destroy", by |-> by]
SetPlaybackRate(rate, by) == [op |-> "setPlaybackRate", rate |-> rate, by |-> by]

PlayerAfter(p, cmd) ==
  IF cmd.op = "seekTo" THEN
    IF IsFinite(cmd.seconds) THEN [p EXCEPT !.time = cmd.seconds] ELSE p
  ELSE IF cmd.op = "cueVideoById" THEN
    [p EXCEPT !.video_id = Some(cmd.videoId), !.time = 0, !.duration = 0]
  ELSE IF cmd.op = "destroy" THEN [p EXCEPT !.exists = "destroyed"]
  ELSE IF cmd.op = "setPlaybackRate" THEN [p EXCEPT !.rate = cmd.rate]
  ELSE p

\* the call is made whether or not a player is held
Call_Unguarded(s, cmd) ==
  [s EXCEPT !.commands = Append(@, cmd), !.player = PlayerAfter(@, cmd)]

Call(s, cmd) ==
  IF ~s.playerRef THEN s
  ELSE [s EXCEPT !.commands = Append(@, cmd), !.player = PlayerAfter(@, cmd)]

(***************************************************************************)
(* Effects.  After a handler's state updates React renders once and runs   *)
(* the effects whose dependencies changed: YouTubePlayer's (the child)     *)
(* first, then useLooperState's.  `a` is the state before the handler,     *)
(* `b` the state after it; setSegments says that setLoopSegments was       *)
(* called (a new array, so a changed dependency even with equal content).  *)
(***************************************************************************)
\* the new identifier is cued and played at once
videoEffect_CuesAndPlays(s, b) ==
  IF ~s.playerRef \/ ~s.readyRef THEN s
  ELSE IF b.videoId = None THEN Call(s, StopVideo("videoEffect"))
  ELSE IF s.player.video_id = b.videoId THEN s
  ELSE Call(Call(s, CueVideoById(b.videoId[1], "videoEffect")), PlayVideo("videoEffect"))

\* youtube-player.tsx 146-162
videoEffect(s, b) ==
  IF ~s.playerRef \/ ~s.readyRef THEN s
  ELSE IF b.videoId = None THEN Call(s, StopVideo("videoEffect"))
  ELSE IF s.player.video_id = b.videoId THEN s
  ELSE Call(s, CueVideoById(b.videoId[1], "videoEffect"))

\* youtube-player.tsx 164-170
playbackRateEffect(s, b) ==
  IF ~s.playerRef \/ ~s.readyRef THEN s
  ELSE Call(s, SetPlaybackRate(b.playbackRate, "playbackRateEffect"))

\* what the interval callback closes over
Closure(enabled, range) ==
  [isLooping |-> IsLoopingProp(enabled, range),
   loopStart |-> LoopStartProp(range), loopEnd |-> LoopEndProp(range)]

PollClosure(b) == Closure(b.loopingEnabled, loopRange(b))

\* window.clearInterval(pollTimerRef.current) when the reference is set
ClearInterval(timers, ref) ==
  IF ref = None \/ \A i \in 1..Len(timers) : timers[i] # ref[1] THEN timers
  ELSE LET last == CHOOSE i \in 1..Len(timers) :
                     timers[i] = ref[1] /\ \A j \in (i + 1)..Len(timers) : timers[j] # ref[1]
       IN  SubSeq(timers, 1, last - 1) \o SubSeq(timers, last + 1, Len(timers))

\* the interval is installed without the one in the reference being cleared
pollingEffect_NoClear(s, b) ==
  IF ~s.playerRef \/ ~s.readyRef
  THEN [s EXCEPT !.pollTimerRef = None,
                 !.intervals = ClearInterval(s.intervals, s.pollTimerRef)]
  ELSE [s EXCEPT !.pollTimerRef = Some(PollClosure(b)),
                 !.intervals = Append(s.intervals, PollClosure(b))]

\* youtube-player.tsx 172-205: cleanup, then the effect body
pollingEffect(s, b) ==
  IF ~s.playerRef \/ ~s.readyRef
  THEN [s EXCEPT !.pollTimerRef = None,
                 !.intervals = ClearInterval(s.intervals, s.pollTimerRef)]
  ELSE [s EXCEPT !.pollTimerRef = Some(PollClosure(b)),
                 !.intervals = Append(ClearInterval(s.intervals, s.pollTimerRef),
                                      PollClosure(b))]

\* youtube-player.tsx 207-215
LoopSeek(s, t) ==
  IF ~s.playerRef \/ ~s.readyRef \/ t.loopStart = None THEN s
  ELSE IF t.isLooping THEN Call(s, SeekTo(t.loopStart[1], "loopEffect"))
  ELSE s

loopSeekEffect(s, b) == LoopSeek(s, PollClosure(b))

\* use-looper-state 71-79; the handle exists while the player component is mounted
\* the seek is not followed by play
SeekAndPlay_SeekOnly(s, segment, by) ==
  IF segment = None THEN s
  ELSE Call(s, SeekTo(segment[1].start, by))

SeekAndPlay(s, segment, by) ==
  IF segment = None THEN s
  ELSE Call(Call(s, SeekTo(segment[1].start, by)), PlayVideo(by))

selectEffect(s, b) ==
  IF ~s.isMounted THEN s ELSE SeekAndPlay(s, selectedSegment(b), "selectEffect")

\* use-looper-state 81-102
addressEffect(s, b) ==
  [s EXCEPT !.location = Location(b.videoId, serializeSegments(b.loopSegments))]

\* the dirty flag is not consulted
linkEffect_IgnoresDirty(s, b) ==
  IF b.videoId = None THEN s
  ELSE [s EXCEPT !.inputValue = buildVideoLink(b.videoId[1], b.loopSegments)]

\* use-looper-state 104-111
linkEffect(s, b) ==
  IF b.videoId = None \/ b.isInputDirty THEN s
  ELSE [s EXCEPT !.inputValue = buildVideoLink(b.videoId[1], b.loopSegments)]

\* each effect runs when one of its dependencies differs between the renders
videoChanged(a, b) == a.videoId # b.videoId

WithVideoEffect(a, b, s) == IF videoChanged(a, b) THEN videoEffect(s, b) ELSE s

WithPlaybackRateEffect(a, b, s) ==
  IF a.playbackRate # b.playbackRate THEN playbackRateEffect(s, b) ELSE s

\* loopEnd left out of the dependencies
WithPollingEffect_IgnoresEnd(a, b, s) ==
  IF \/ PollClosure(a).isLooping # PollClosure(b).isLooping
     \/ PollClosure(a).loopStart # PollClosure(b).loopStart
  THEN pollingEffect(s, b) ELSE s

WithPollingEffect(a, b, s) ==
  IF PollClosure(a) # PollClosure(b) THEN pollingEffect(s, b) ELSE s

SeekDepsChanged(ta, tb) == ta.loopStart # tb.loopStart \/ ta.isLooping # tb.isLooping

WithLoopSeekEffect(a, b, s) ==
  IF SeekDepsChanged(PollClosure(a), PollClosure(b)) THEN loopSeekEffect(s, b) ELSE s

WithSelectEffect(a, b, s) ==
  IF selectedSegment(a) # selectedSegment(b) THEN selectEffect(s, b) ELSE s

\* loopSegments left out of the dependencies
WithAddressEffect_VideoOnly(a, b, setSegments, s) ==
  IF videoChanged(a, b) THEN addressEffect(s, b) ELSE s

WithAddressEffect(a, b, setSegments, s) ==
  IF videoChanged(a, b) \/ setSegments THEN addressEffect(s, b) ELSE s

WithLinkEffect(a, b, setSegments, s) ==
  IF videoChanged(a, b) \/ setSegments \/ a.isInputDirty # b.isInputDirty
  THEN linkEffect(s, b) ELSE s

Effects(a, b, setSegments) ==
  WithLinkEffect(a, b, setSegments,
    WithAddressEffect(a, b, setSegments,
      WithSelectEffect(a, b,
        WithLoopSeekEffect(a, b,
          WithPollingEffect(a, b,
            WithPlaybackRateEffect(a, b,
              WithVideoEffect(a, b, b)))))))

(***************************************************************************)
(* The controller's handlers (use-looper-state), as functions of the state *)
(* they run in.                                                            *)
(***************************************************************************)
INPUT_ERROR == "Please enter a valid YouTube URL or ID."

resetDraft(s) ==
  [s EXCEPT !.draftStart = None, !.draftEnd = None, !.draftLabel = "",
            !.draftStartInput = "", !.draftEndInput = ""]

\* a failed submission also clears the draft
Submitted_FailureClearsDraft(s, candidateId, parsedSegments) ==
  IF candidateId = None THEN [resetDraft(s) EXCEPT !.inputError = Some(INPUT_ERROR)]
  ELSE [resetDraft(s) EXCEPT
          !.inputError = None,
          !.videoId = candidateId,
          !.loopSegments = parsedSegments,
          !.selectedSegmentId = IF Len(parsedSegments) >= 1
                                THEN Some(parsedSegments[1].id) ELSE None,
          !.currentTime = 0,
          !.duration = 0,
          !.isPlaying = FALSE,
          !.isInputDirty = FALSE,
          !.nextId = s.nextId + Len(parsedSegments)]

\* a link without segments keeps the segments of the session
Submitted_KeepsSegments(s, candidateId, parsedSegments) ==
  IF candidateId = None THEN [s EXCEPT !.inputError = Some(INPUT_ERROR)]
  ELSE [resetDraft(s) EXCEPT
          !.inputError = None,
          !.videoId = candidateId,
          !.loopSegments = IF parsedSegments = <<>> THEN @ ELSE parsedSegments,
          !.selectedSegmentId = IF Len(parsedSegments) >= 1
                                THEN Some(parsedSegments[1].id) ELSE None,
          !.currentTime = 0,
          !.duration = 0,
          !.isPlaying = FALSE,
          !.isInputDirty = FALSE,
          !.nextId = s.nextId + Len(parsedSegments)]

Submitted(s, candidateId, parsedSegments) ==
      IF candidateId = None THEN [s EXCEPT !.inputError = Some(INPUT_ERROR)]
      ELSE [resetDraft(s) EXCEPT
              !.inputError = None,
              !.videoId = candidateId,
              !.loopSegments = parsedSegments,
              !.selectedSegmentId = IF Len(parsedSegments) >= 1
                                    THEN Some(parsedSegments[1].id) ELSE None,
              !.currentTime = 0,
              !.duration = 0,
              !.isPlaying = FALSE,
              !.isInputDirty = FALSE,
              !.nextId = s.nextId + Len(parsedSegments)]

handleSubmit(s) ==
  Submitted(s, extractYouTubeId(s.inputValue),
            extractSegmentsFromInput(s.inputValue, s.nextId))

handleInputChange(s, value) == [s EXCEPT !.isInputDirty = TRUE, !.inputValue = value]

\* the flag is cleared whatever the field holds
handleInputBlur_AlwaysClears(s, value) == [s EXCEPT !.isInputDirty = FALSE]

handleInputBlur(s, value) ==
  IF s.videoId = None THEN [s EXCEPT !.isInputDirty = FALSE]
  ELSE IF value = buildVideoLink(s.videoId[1], s.loopSegments)
  THEN [s EXCEPT !.isInputDirty = FALSE]
  ELSE s

\* the duration is stored whatever it is
handleTimeUpdate_Always(s, time, total) ==
  [s EXCEPT !.currentTime = time, !.duration = total]

handleTimeUpdate(s, time, total) ==
  IF total > 0 THEN [s EXCEPT !.currentTime = time, !.duration = total]
  ELSE [s EXCEPT !.currentTime = time]

handlePlayerReady(s, total) == [s EXCEPT !.duration = total]

handleStateChange(s, state) == [s EXCEPT !.isPlaying = (state = 1 \/ state = 3)]

handleTogglePlay(s) ==
  IF s.isPlaying THEN Call(s, PauseVideo("togglePlay"))
  ELSE IF selectedSegment(s) # None THEN SeekAndPlay(s, selectedSegment(s), "togglePlay")
  ELSE Call(s, PlayVideo("togglePlay"))

IndexOfSelected(s) ==
  CHOOSE i \in 1..Len(s.loopSegments) : s.loopSegments[i].id = selectedSegment(s)[1].id

\* previous from the first segment stays on the first: Math.max(0, currentIndex - 1)
handlePrevSegment_NoWrap(s) ==
  LET n == Len(s.loopSegments)
  IN  IF n = 0 THEN s
      ELSE IF selectedSegment(s) = None
      THEN [s EXCEPT !.selectedSegmentId = Some(s.loopSegments[n].id)]
      ELSE LET currentIndex == IndexOfSelected(s)
               targetIndex == Max(1, currentIndex - 1)
           IN  [s EXCEPT !.selectedSegmentId = Some(s.loopSegments[targetIndex].id)]

handlePrevSegment(s) ==
  LET n == Len(s.loopSegments)
  IN  IF n = 0 THEN s
      ELSE IF selectedSegment(s) = None
      THEN [s EXCEPT !.selectedSegmentId = Some(s.loopSegments[n].id)]
      ELSE LET currentIndex == IndexOfSelected(s)
               targetIndex == IF currentIndex > 1 THEN currentIndex - 1 ELSE Max(1, n)
           IN  [s EXCEPT !.selectedSegmentId = Some(s.loopSegments[targetIndex].id)]

handleNextSegment(s) ==
  LET n == Len(s.loopSegments)
  IN  IF n = 0 THEN s
      ELSE IF selectedSegment(s) = None
      THEN [s EXCEPT !.selectedSegmentId = Some(s.loopSegments[1].id)]
      ELSE LET currentIndex == IndexOfSelected(s)
               targetIndex == IF currentIndex < n THEN currentIndex + 1 ELSE 1
           IN  [s EXCEPT !.selectedSegmentId = Some(s.loopSegments[targetIndex].id)]

handleDraftStartInputChange(s, value) ==
  [s EXCEPT !.draftStartInput = value, !.draftStart = parseTimestampInput(value)]

handleDraftEndInputChange(s, value) ==
  [s EXCEPT !.draftEndInput = value, !.draftEnd = parseTimestampInput(value)]

\* the playback time is stored as it is, without toFixed(2)
handleMarkStart_Unrounded(s) ==
  [s EXCEPT !.draftStart = Some(s.currentTime),
            !.draftStartInput = formatTimestampInput(Some(s.currentTime))]

handleMarkStart(s) ==
  LET precise == Round2(s.currentTime)
  IN  [s EXCEPT !.draftStart = Some(precise),
                !.draftStartInput = formatTimestampInput(Some(precise))]

handleMarkEnd(s) ==
  LET precise == Round2(s.currentTime)
  IN  [s EXCEPT !.draftEnd = Some(precise),
                !.draftEndInput = formatTimestampInput(Some(precise))]

\* the draft's bound is taken as it is, whatever the duration
Bounded_Unclamped(s, bound) == bound

\* a draft bound clamped into [0, duration] when the duration is known
Bounded(s, bound) ==
  IF s.duration > 0 THEN Min(Max(0, bound), s.duration) ELSE bound

\* the list is not re-sorted after the insertion
Inserted_Unsorted(previous, newSegment) == Append(previous, newSegment)

Inserted(previous, newSegment) == SortByStart(Append(previous, newSegment))

handleAddSegment(s) ==
  IF ~canAddSegment(s) THEN s
  ELSE
    LET boundedStart == Bounded(s, s.draftStart[1])
        boundedEnd == Bounded(s, s.draftEnd[1])
        id == s.nextId
        newSegment ==
          LoopSegment(id,
                      IF Trim(s.draftLabel) = ""
                      THEN DefaultLabel(Len(s.loopSegments) + 1)
                      ELSE Trim(s.draftLabel),
                      Min(boundedStart, boundedEnd),
                      Max(boundedStart, boundedEnd))
    IN  [resetDraft(s) EXCEPT
           !.loopSegments = Inserted(s.loopSegments, newSegment),
           !.selectedSegmentId = Some(id),
           !.nextId = s.nextId + 1]

handleSegmentPlay(s, segment) ==
  Call(Call([s EXCEPT !.selectedSegmentId = Some(segment.id)],
            SeekTo(segment.start, "segmentPlay")),
       PlayVideo("segmentPlay"))

\* the selection is left on the removed segment's id
handleRemoveSegment_KeepsSelection(s, id) ==
  [s EXCEPT !.loopSegments = SelectSeq(@, LAMBDA segment : segment.id # id)]

handleRemoveSegment(s, id) ==
  [s EXCEPT !.loopSegments = SelectSeq(@, LAMBDA segment : segment.id # id),
            !.selectedSegmentId = IF @ = Some(id) THEN None ELSE @]

\* the selection is left as it is
handleClearSegments_KeepsSelection(s) == [s EXCEPT !.loopSegments = <<>>]

handleClearSegments(s) == [s EXCEPT !.loopSegments = <<>>, !.selectedSegmentId = None]

handleRemoveSelected(s) ==
  IF selectedSegment(s) = None THEN s
  ELSE handleRemoveSegment(s, selectedSegment(s)[1].id)

RateSet(s, rate) == IF rate.nan THEN s ELSE [s EXCEPT !.playbackRate = rate.n]

handlePlaybackRateChange(s, value) == RateSet(s, JsNumber(value))

handleToggleLooping(s) == [s EXCEPT !.loopingEnabled = ~@]

\* the body of the interval callback (youtube-player.tsx 182-197); t is the
\* closure the timer was created with
\* the threshold dropped: the seek waits for the end itself
ShouldSeek_AtEnd(t, time) ==
  /\ t.isLooping
  /\ t.loopStart # None
  /\ t.loopEnd # None
  /\ t.loopEnd[1] > t.loopStart[1]
  /\ time >= t.loopEnd[1]

ShouldSeek(t, time) ==
  /\ t.isLooping
  /\ t.loopStart # None
  /\ t.loopEnd # None
  /\ t.loopEnd[1] > t.loopStart[1]
  /\ time >= t.loopEnd[1] - LOOP_THRESHOLD

pollTick(s, t) ==
  IF ~s.playerRef THEN s
  ELSE LET time == s.player.time
           total == s.player.duration
           reported == handleTimeUpdate(s, time, total)
       IN  IF ShouldSeek(t, time)
           THEN Call(reported, SeekTo(t.loopStart[1], "poll"))
           ELSE reported

\* the events option's onReady (youtube-player.tsx 115-118)
onReady(s) ==
  handlePlayerReady([s EXCEPT !.readyRef = TRUE, !.player.readyFired = TRUE],
                    s.player.duration)

\* the init effect's cleanup (youtube-player.tsx 131-143)
cleanup(s) ==
  [Call([s EXCEPT !.isMounted = FALSE, !.pollTimerRef = None,
                  !.intervals = ClearInterval(s.intervals, s.pollTimerRef)],
        Destroy("cleanup"))
     EXCEPT !.playerRef = FALSE, !.readyRef = FALSE]

(***************************************************************************)
(* Initial state: the first render from the address bar, after the mount   *)
(* effects (no player exists yet, so only the address bar and the link     *)
(* text are written) and with the player API requested.                    *)
(***************************************************************************)
Mounted(initialState) ==
      [inputValue |-> initialState.inputValue,
       videoId |-> initialState.videoId,
       inputError |-> None,
       loopSegments |-> initialState.segments,
       selectedSegmentId |-> initialState.selectedSegmentId,
       currentTime |-> 0, duration |-> 0, isPlaying |-> FALSE,
       playbackRate |-> 1000, loopingEnabled |-> TRUE,
       draftLabel |-> "", draftStart |-> None, draftEnd |-> None,
       draftStartInput |-> "", draftEndInput |-> "",
       isInputDirty |-> FALSE,
       location |-> Location(initialState.videoId, serializeSegments(initialState.segments)),
       nextId |-> 1 + Len(initialState.segments),
       isMounted |-> TRUE, apiPromise |-> "pending",
       playerRef |-> FALSE, readyRef |-> FALSE, pollTimerRef |-> None,
       player |-> NoPlayer, intervals |-> <<>>, commands |-> <<>>]

InitialState(loc) == Mounted(getInitialAppState(loc, 1))

InitFrom(Locations) ==
  /\ \E loc \in Locations : Is(InitialState(loc))
  /\ fnInput = None
  /\ fnOutput = None

\* the state a handler starts from: nothing has been asked of the player yet
Cleared == [State EXCEPT !.commands = <<>>]

\* a handler's result h, rendered and followed by the effects
Step(h, setSegments) ==
  /\ Becomes(Effects(State, h, setSegments))
  /\ UNCHANGED <<fnInput, fnOutput>>

(***************************************************************************)
(* Actions: one per handler, event or timer.  An action's parameters are   *)
(* the sets its inputs are drawn from.                                     *)
(***************************************************************************)
\* the render and the effects that follow a handler's result h when the
\* handler called setLoopSegments exactly on success
StepOf(h) == Step(h, h.inputError = None)

HandleSubmit ==
  /\ isMounted
  /\ handleSubmit(Cleared).nextId <= MaxIds + 1
  /\ StepOf(handleSubmit(Cleared))

HandleInputChange(Texts) ==
  isMounted /\ \E value \in Texts : Step(handleInputChange(Cleared, value), FALSE)

HandleInputBlur == isMounted /\ Step(handleInputBlur(Cleared, inputValue), FALSE)

HandleTogglePlay == isMounted /\ Step(handleTogglePlay(Cleared), FALSE)

HandlePrevSegment == isMounted /\ Step(handlePrevSegment(Cleared), FALSE)

HandleNextSegment == isMounted /\ Step(handleNextSegment(Cleared), FALSE)

HandleDraftStartInputChange(Texts) ==
  isMounted /\ \E value \in Texts : Step(handleDraftStartInputChange(Cleared, value), FALSE)

HandleDraftEndInputChange(Texts) ==
  isMounted /\ \E value \in Texts : Step(handleDraftEndInputChange(Cleared, value), FALSE)

SetDraftLabel(Labels) ==
  isMounted /\ \E value \in Labels : Step([Cleared EXCEPT !.draftLabel = value], FALSE)

ResetDraft == isMounted /\ Step(resetDraft(Cleared), FALSE)

HandleMarkStart == isMounted /\ Step(handleMarkStart(Cleared), FALSE)

HandleMarkEnd == isMounted /\ Step(handleMarkEnd(Cleared), FALSE)

HandleAddSegment ==
  /\ isMounted
  /\ nextId <= MaxIds
  /\ Step(handleAddSegment(Cleared), canAddSegment(Cleared))

SetSelectedSegmentId ==
  /\ isMounted
  /\ \E i \in 1..Len(loopSegments) :
       Step([Cleared EXCEPT !.selectedSegmentId = Some(loopSegments[i].id)], FALSE)

HandleSegmentPlay ==
  /\ isMounted
  /\ \E i \in 1..Len(loopSegments) : Step(handleSegmentPlay(Cleared, loopSegments[i]), FALSE)

HandleRemoveSelected ==
  isMounted /\ Step(handleRemoveSelected(Cleared), selectedSegment(Cleared) # None)

HandleClearSegments == isMounted /\ Step(handleClearSegments(Cleared), TRUE)

HandleToggleLooping == isMounted /\ Step(handleToggleLooping(Cleared), FALSE)

HandlePlaybackRateChange(Values) ==
  isMounted /\ \E value \in Values : Step(handlePlaybackRateChange(Cleared, value), FALSE)

\* the `then` callback creates the player without looking at isMounted
ApiResolve_Unchecked ==
  /\ apiPromise = "pending"
  /\ Step([Cleared EXCEPT !.apiPromise = "resolved", !.playerRef = TRUE,
                          !.player = [NoPlayer EXCEPT !.exists = "live"]], FALSE)

\* loadYouTubeIframeApi's promise resolves: the `then` callback creates the player
ApiResolve ==
  /\ apiPromise = "pending"
  /\ Step(IF isMounted
          THEN [Cleared EXCEPT !.apiPromise = "resolved", !.playerRef = TRUE,
                               !.player = [NoPlayer EXCEPT !.exists = "live"]]
          ELSE [Cleared EXCEPT !.apiPromise = "resolved"], FALSE)

\* it rejects: the `catch` callback logs
ApiReject ==
  /\ apiPromise = "pending"
  /\ Step([Cleared EXCEPT !.apiPromise = "rejected"], FALSE)

PlayerReady ==
  /\ player.exists = "live"
  /\ ~player.readyFired
  /\ Step(onReady(Cleared), FALSE)

PlayerStateChange(States) ==
  /\ player.exists = "live"
  /\ player.readyFired
  /\ \E state \in States : Step(handleStateChange(Cleared, state), FALSE)

\* playback moves on, the media's length becomes known
PlayerAdvance(Times, Durations) ==
  /\ player.exists = "live"
  /\ player.readyFired
  /\ player.video_id # None
  /\ \E time \in Times, total \in Durations :
       Step([Cleared EXCEPT !.player.time = time, !.player.duration = total], FALSE)

\* an active interval fires
PollTick ==
  \E i \in 1..Len(intervals) : Step(pollTick(Cleared, intervals[i]), FALSE)

Dispose ==
  /\ isMounted
  /\ Step(cleanup(Cleared), FALSE)

\* Events of a player that has been destroyed.  The handlers are the ones
\* handed to the player at its creation (youtube-player.tsx 114-122) and do
\* not look at isMounted; the controller is unmounted with the synchronizer,
\* so what they set on the controller's state is dropped.
LatePlayerReady ==
  /\ player.exists = "destroyed"
  /\ ~player.readyFired
  /\ Becomes([onReady(Cleared) EXCEPT !.duration = duration])
  /\ UNCHANGED <<fnInput, fnOutput>>

LatePlayerStateChange(States) ==
  /\ player.exists = "destroyed"
  /\ \E state \in States :
       Becomes([handleStateChange(Cleared, state) EXCEPT !.isPlaying = isPlaying])
  /\ UNCHANGED <<fnInput, fnOutput>>

\* the page is opened again at the address the controller wrote last
Reload ==
  /\ Becomes(InitialState(location))
  /\ UNCHANGED <<fnInput, fnOutput>>

(***************************************************************************)
(* Specifications.  Each takes the whole program from its initial state    *)
(* and differs in the part of the interface it drives: which handlers the  *)
(* user and the player invoke and from which sets their inputs come.       *)
(***************************************************************************)

\* Building segments: a page opened with or without segments in the address
\* bar, links loaded, drafts typed and committed, segments removed, with
\* the player reporting a position and a duration.
BuildLocations == {Location(None, None), Location(Some(VideoA), Some(PayloadSwapped))}
BuildTexts == {UrlText("www.youtube.com", "/watch", Some(VideoB), Some(PayloadSwapped))}

Init == InitFrom(BuildLocations)

Next ==
  \/ HandleInputChange(BuildTexts)
  \/ HandleSubmit
  \/ HandleDraftStartInputChange(DraftStartTexts)
  \/ HandleDraftEndInputChange(DraftEndTexts)
  \/ HandleMarkEnd
  \/ HandleAddSegment
  \/ HandleRemoveSelected
  \/ HandleClearSegments
  \/ ApiResolve
  \/ PlayerReady
  \/ PlayerAdvance({1900}, {1150})
  \/ PollTick

Spec == Init /\ [][Next]_vars

\* Loading: every kind of text typed into the link field and submitted, over
\* a session with a draft, a playing video and committed segments.
InitLoad == InitFrom(InitialLocations)

NextLoad ==
  \/ HandleInputChange(InputTexts)
  \/ HandleInputBlur
  \/ HandleSubmit
  \/ HandleDraftStartInputChange({"0:01"})
  \/ SetDraftLabel(DraftLabels)
  \/ HandlePlaybackRateChange(RateValues)
  \/ HandleClearSegments
  \/ ApiResolve
  \/ PlayerReady
  \/ PlayerStateChange({1})
  \/ PlayerAdvance({1900}, {6000})
  \/ PollTick

SpecLoad == InitLoad /\ [][NextLoad]_vars

\* Synchronizing: the player's life cycle, its events and the poll timer,
\* under selection changes, looping toggles and a change of video.
PayloadLoops ==
  JArr(<<JObj(JStr("A"), JNum(1000), JNum(2000)), JObj(JStr("Z"), JNum(3000), JNum(3000))>>)
SyncLocations == {Location(None, None), Location(Some(VideoA), Some(PayloadLoops))}
SyncTexts == {UrlText("www.youtube.com", "/watch", Some(VideoB), Some(PayloadOne))}

InitSync == InitFrom(SyncLocations)

NextSync ==
  \/ ApiResolve
  \/ ApiReject
  \/ PlayerReady
  \/ PlayerStateChange(PlayerStates)
  \/ PlayerAdvance(PlayerTimes, PlayerDurations)
  \/ PollTick
  \/ Dispose
  \/ HandleInputChange(SyncTexts)
  \/ HandleSubmit
  \/ HandleToggleLooping
  \/ HandleNextSegment
  \/ HandlePrevSegment
  \/ SetSelectedSegmentId
  \/ HandleSegmentPlay
  \/ HandleTogglePlay
  \/ HandleRemoveSelected
  \/ HandleClearSegments

SpecSync == InitSync /\ [][NextSync]_vars

\* The segment codec on its own: a list is encoded and the text decoded, or a
\* value of the `segments` parameter is decoded, or the page is opened with it.
CodecMaxLen == 2
CodecLabels == {"A", " B ", ""}
CodecTimes == {-500, 0, 1000, 1234, Infinity}

CodecSegments ==
  {LoopSegment(0, label, start, end) :
     label \in CodecLabels,
     start \in {t \in CodecTimes : t < Infinity}, end \in CodecTimes}

\* lists of at most CodecMaxLen segments with start <= end, in order of start
SegmentLists ==
  {[i \in 1..Len(L) |-> [L[i] EXCEPT !.id = i]] :
     L \in {M \in UNION {[1..n -> CodecSegments] : n \in 0..CodecMaxLen} :
              /\ \A i \in 1..Len(M) : M[i].start <= M[i].end
              /\ \A i \in 1..(Len(M) - 1) : M[i].start <= M[i + 1].start}}

ParamValues ==
  {None, Some(JEmpty), Some(JInvalid), Some(JNull), Some(JNum(5000)),
   Some(JStr("loops")), Some(JBool(TRUE)),
   Some(JObj(JStr("A"), JNum(1000), JNum(2000))),
   Some(JArr(<<>>)), Some(PayloadBad), Some(PayloadSwapped),
   Some(PayloadExample), Some(PayloadMixed), Some(PayloadIdentified)}

CodecInputs ==
  {[kind |-> "segments", value |-> L] : L \in SegmentLists}
    \cup {[kind |-> "param", value |-> v] : v \in ParamValues}

Encode ==
  /\ fnInput.kind = "segments"
  /\ fnOutput.stage = "none"
  /\ fnOutput' = [stage |-> "encoded", encoded |-> serializeSegments(fnInput.value)]
  /\ UNCHANGED <<appVars, fnInput>>

Decode ==
  /\ \/ /\ fnInput.kind = "param"
        /\ fnOutput.stage = "none"
        /\ fnOutput' = [stage |-> "decoded", decoded |-> parseSegmentsParam(fnInput.value, 1)]
     \/ /\ fnOutput.stage = "encoded"
        /\ fnOutput' = [stage |-> "decoded",
                        decoded |-> parseSegmentsParam(fnOutput.encoded, 1)]
  /\ UNCHANGED <<appVars, fnInput>>

\* the page is opened with the value as its `segments` parameter
Open ==
  /\ fnInput.kind = "param"
  /\ fnOutput.stage = "none"
  /\ fnOutput' = [stage |-> "opened",
                  session |-> InitialState(Location(Some(VideoA), fnInput.value))]
  /\ UNCHANGED <<appVars, fnInput>>

InitCodec ==
  /\ Is(InitialState(Location(None, None)))
  /\ fnInput \in CodecInputs
  /\ fnOutput = [stage |-> "none"]

NextCodec == Encode \/ Decode \/ Open

SpecCodec == InitCodec /\ [][NextCodec]_vars

\* The identifier extractor on its own and under the link form: a text is
\* handed to extractYouTubeId, or typed into the link field and submitted.
ExtractHosts ==
  {"youtu.be", "www.youtube.com", "m.youtube.com", "www.youtube-nocookie.com", "vimeo.com"}
ExtractPaths ==
  {"/", "/watch", "/abc", "/" \o VideoA, "/embed", "/embed/abc", "/embed/" \o VideoA}
ExtractQueries == {None, Some(""), Some("abc"), Some(VideoB), Some(" " \o VideoB \o " ")}

ExtractInputs ==
  {UrlText(hostname, pathname, v, None) :
     hostname \in ExtractHosts, pathname \in ExtractPaths, v \in ExtractQueries}
    \cup {PlainText(""), PlainText("abc"), PlainText(VideoA), PlainText(" " \o VideoA \o " "),
          PlainText(VideoA \o "x"), PlainText("dQw4w9WgXc!")}

ExtractLocations == {Location(None, None), Location(Some("abc"), None)}

Extract ==
  /\ fnOutput.stage = "none"
  /\ fnOutput' = [stage |-> "extracted", id |-> extractYouTubeId(fnInput)]
  /\ UNCHANGED <<appVars, fnInput>>

InitExtract ==
  /\ \E loc \in ExtractLocations : Is(InitialState(loc))
  /\ fnInput \in ExtractInputs
  /\ fnOutput = [stage |-> "none"]

NextExtract ==
  \/ Extract
  \/ HandleInputChange({fnInput})
  \/ HandleSubmit

SpecExtract == InitExtract /\ [][NextExtract]_vars

\* The timestamp codec on its own and under the draft's text fields: a number
\* of seconds is formatted and the text parsed, or a text is parsed, or typed
\* into the draft's start or end field.
MaxMinutes == 61
TimeSeconds == {0, 1, 9, 10, 59}
TimeMillis == {0, 4, 6, 40, 94, 96, 500, 994, 996}

\* a day less 4 ms, a hundred hours
LongTimes == {86399996, 360000000}

TimeValues ==
  {60000 * m + 1000 * sec + ms : m \in 0..MaxMinutes, sec \in TimeSeconds, ms \in TimeMillis}
    \cup LongTimes

TimeTexts ==
  {"", "  ", "00:10", "1:02:03", "1:00:00:00", " 0:01 ", "1:90", "1:02.504", "0:00.996",
   ":10", "10:", "1::3", "1.5:30", "-1:30", "a:30", "1:3a", "1:-30", "0:-5", "0:Infinity",
   " 7 ", "90", "2.5", "1.104", "-3", "abc", "1.2.3"}

\* what the clock display is given besides the times above: null, NaN, the
\* infinities, times below zero, 65 s, 3725 s, a hundred hours less 1 ms
ClockValues ==
  {None, Some(NaN), Some(Num(Infinity)), Some(Num(-Infinity)), Some(Num(-1)), Some(Num(-61500)),
   Some(Num(65000)), Some(Num(3725000)), Some(Num(359999999))}

TimeInputs ==
  {[kind |-> "seconds", value |-> t] : t \in TimeValues}
    \cup {[kind |-> "text", value |-> t] : t \in TimeTexts}
    \cup {[kind |-> "clock", value |-> v] : v \in ClockValues}

\* the text typed, when the input is one
TypedTexts == IF fnInput.kind = "text" THEN {fnInput.value} ELSE {}

Format ==
  /\ fnInput.kind = "seconds"
  /\ fnOutput.stage = "none"
  /\ fnOutput' = [stage |-> "formatted", text |-> formatTimestampInput(Some(fnInput.value))]
  /\ UNCHANGED <<appVars, fnInput>>

\* the value the clock display is given
ClockValue == IF fnInput.kind = "seconds" THEN Some(Num(fnInput.value)) ELSE fnInput.value

FormatClock ==
  /\ fnInput.kind \in {"seconds", "clock"}
  /\ fnOutput.stage = "none"
  /\ fnOutput' = [stage |-> "clock", text |-> formatTime(ClockValue)]
  /\ UNCHANGED <<appVars, fnInput>>

Parse ==
  /\ \/ /\ fnInput.kind = "text"
        /\ fnOutput.stage = "none"
        /\ fnOutput' = [stage |-> "parsed", text |-> fnInput.value,
                        value |-> parseTimestampInput(fnInput.value)]
     \/ /\ fnOutput.stage = "formatted"
        /\ fnOutput' = [stage |-> "parsed", text |-> fnOutput.text,
                        value |-> parseTimestampInput(fnOutput.text)]
  /\ UNCHANGED <<appVars, fnInput>>

InitTime ==
  /\ Is(InitialState(Location(None, None)))
  /\ fnInput \in TimeInputs
  /\ fnOutput = [stage |-> "none"]

NextTime ==
  \/ Format
  \/ FormatClock
  \/ Parse
  \/ HandleDraftStartInputChange(TypedTexts)
  \/ HandleDraftEndInputChange(TypedTexts)

SpecTime == InitTime /\ [][NextTime]_vars

\* Persisting: a video loaded, segments committed (one of them clamped to a
\* duration of 1.234 s) and removed, and the page opened again at its own
\* address.
InitPersist == InitFrom({Location(None, None)})

NextPersist ==
  \/ HandleInputChange({PlainText(VideoB)})
  \/ HandleSubmit
  \/ HandleDraftStartInputChange({"0:01"})
  \/ HandleDraftEndInputChange({"0:02"})
  \/ HandleAddSegment
  \/ HandleRemoveSelected
  \/ ApiResolve
  \/ PlayerReady
  \/ PlayerAdvance({0}, {1234})
  \/ PollTick
  \/ Reload

SpecPersist == InitPersist /\ [][NextPersist]_vars

\* The link field: edited, left and submitted while segments are committed,
\* removed and cleared and the page is opened again; no player is created.
LinkLocations == {Location(None, None), Location(Some(VideoA), Some(PayloadOne))}

\* a bare id, text that is no video, and the canonical link of the session
LinkTexts ==
  {PlainText(VideoB), PlainText("not a video")}
    \cup (IF videoId = None THEN {} ELSE {buildVideoLink(videoId[1], loopSegments)})

InitLink == InitFrom(LinkLocations)

NextLink ==
  \/ HandleInputChange(LinkTexts)
  \/ HandleInputBlur
  \/ HandleSubmit
  \/ HandleDraftStartInputChange({"0:01"})
  \/ HandleDraftEndInputChange({"0:02"})
  \/ HandleAddSegment
  \/ HandleRemoveSelected
  \/ HandleClearSegments
  \/ Reload

SpecLink == InitLink /\ [][NextLink]_vars

\* Selecting: next and previous over a list opened from the address bar and
\* grown by commits (the committed segment starts where a decoded one does),
\* the selected segment removed, the list cleared, a draft being typed.
InitSelect == InitFrom({Location(Some(VideoA), Some(PayloadLoops))})

NextSelect ==
  \/ HandleNextSegment
  \/ HandlePrevSegment
  \/ HandleRemoveSelected
  \/ HandleClearSegments
  \/ SetDraftLabel(DraftLabels)
  \/ HandleDraftStartInputChange({"0:01"})
  \/ HandleDraftEndInputChange({"0:02"})
  \/ HandleAddSegment

SpecSelect == InitSelect /\ [][NextSelect]_vars

\* Committing: drafts with a label, a blank label or none, committed before
\* the duration is known and after a poll tick reported 1.5 s, over a list
\* that came with a submitted link.
CommitLabels == {" Riff ", "  "}

InitCommit == InitFrom({Location(None, None)})

NextCommit ==
  \/ HandleInputChange(SyncTexts)
  \/ HandleSubmit
  \/ ApiResolve
  \/ PlayerReady
  \/ PlayerAdvance({0}, {1500})
  \/ PollTick
  \/ HandleDraftStartInputChange({"0:01"})
  \/ HandleDraftEndInputChange({"0:02"})
  \/ SetDraftLabel(CommitLabels)
  \/ HandleAddSegment

SpecCommit == InitCommit /\ [][NextCommit]_vars

\* Drafting: the draft's fields typed (a time, a plain number, a text that
\* is no time), marked from a playback time of 1.234 s, reset and committed,
\* and a video loaded over a draft.
InitDraft == InitFrom({Location(None, None)})

NextDraft ==
  \/ HandleInputChange({PlainText(VideoB)})
  \/ HandleSubmit
  \/ ApiResolve
  \/ PlayerReady
  \/ PlayerAdvance({1234}, {0})
  \/ PollTick
  \/ HandleDraftStartInputChange({"0:01", "1:3a"})
  \/ HandleDraftEndInputChange({"1.104"})
  \/ HandleMarkStart
  \/ HandleMarkEnd
  \/ ResetDraft
  \/ HandleAddSegment

SpecDraft == InitDraft /\ [][NextDraft]_vars

\* Tearing down: the synchronizer disposed before the API has loaded, before
\* the player is ready, or while it polls a selected segment, and the events
\* and the resolution of the API that arrive afterwards.
InitTeardown == InitFrom({Location(Some(VideoA), Some(PayloadLoops))})

NextTeardown ==
  \/ ApiResolve
  \/ ApiReject
  \/ PlayerReady
  \/ PlayerStateChange({1})
  \/ PlayerAdvance({1900}, {6000})
  \/ PollTick
  \/ HandleInputChange(SyncTexts)
  \/ HandleSubmit
  \/ HandleNextSegment
  \/ HandleToggleLooping
  \/ HandleTogglePlay
  \/ Dispose
  \/ LatePlayerReady
  \/ LatePlayerStateChange({1})

SpecTeardown == InitTeardown /\ [][NextTeardown]_vars

\* Failing: the player API loads or fails to load, and the controller is
\* used all the same: links loaded, bounds marked and typed, drafts
\* committed, segments stepped through, removed and cleared, play toggled.
InitFail == InitFrom(SyncLocations)

NextFail ==
  \/ ApiReject
  \/ ApiResolve
  \/ PlayerReady
  \/ HandleInputChange(SyncTexts)
  \/ HandleSubmit
  \/ HandleDraftEndInputChange({"0:02"})
  \/ HandleMarkStart
  \/ HandleMarkEnd
  \/ HandleAddSegment
  \/ HandleNextSegment
  \/ HandlePrevSegment
  \/ HandleRemoveSelected
  \/ HandleClearSegments
  \/ HandleTogglePlay

SpecFail == InitFail /\ [][NextFail]_vars

\* Snapping: the selection moved between two segments that start together
\* and between two that do not, by next, previous, a click on a segment and
\* the removal of the selected one, with looping switched on and off, before
\* and after the player is ready.
PayloadTwins ==
  JArr(<<JObj(JStr("A"), JNum(1000), JNum(2000)), JObj(JStr("B"), JNum(1000), JNum(3000))>>)

InitSnap ==
  InitFrom({Location(Some(VideoA), Some(PayloadTwins)),
            Location(Some(VideoA), Some(PayloadLoops))})

NextSnap ==
  \/ ApiResolve
  \/ PlayerReady
  \/ PollTick
  \/ HandleNextSegment
  \/ HandlePrevSegment
  \/ SetSelectedSegmentId
  \/ HandleSegmentPlay
  \/ HandleToggleLooping
  \/ HandleRemoveSelected

SpecSnap == InitSnap /\ [][NextSnap]_vars

\* Cueing: bare ids and a link with a segment loaded one after the other,
\* before and after the player is ready, while the player reports a duration
\* of 6 s and later none.
CueTexts == {PlainText(VideoA), PlainText(VideoB)} \cup SyncTexts

InitCue == InitFrom({Location(None, None), Location(Some(VideoA), Some(PayloadOne))})

NextCue ==
  \/ ApiResolve
  \/ PlayerReady
  \/ HandleInputChange(CueTexts)
  \/ HandleSubmit
  \/ PlayerAdvance({1900}, {6000})
  \/ PlayerAdvance({2500}, {0})
  \/ PollTick

SpecCue == InitCue /\ [][NextCue]_vars

\* Selection changes and looping toggles between poll ticks: links with two
\* segments are loaded (equal starts and different ends; different starts),
\* the player reports positions just before either end.
RaceTexts ==
  {UrlText("www.youtube.com", "/watch", Some(VideoB), Some(PayloadTwins)),
   UrlText("www.youtube.com", "/watch", Some(VideoA), Some(PayloadLoops))}

InitRace == InitFrom({Location(None, None)})

NextRace ==
  \/ ApiResolve
  \/ PlayerReady
  \/ HandleInputChange(RaceTexts)
  \/ HandleSubmit
  \/ PlayerAdvance({1900, 2900}, {6000})
  \/ PollTick
  \/ HandleNextSegment
  \/ HandlePrevSegment
  \/ HandleToggleLooping

SpecRace == InitRace /\ [][NextRace]_vars

\* Every way of changing the list and the selection: a page opened with or
\* without segments, a link loaded, drafts committed, a segment picked from
\* the list, next and previous, the selected segment removed, the list
\* cleared, with a player that becomes ready at any point.
InitPick == InitFrom({Location(None, None), Location(Some(VideoA), Some(PayloadLoops))})

NextPick ==
  \/ HandleInputChange(SyncTexts)
  \/ HandleSubmit
  \/ HandleDraftStartInputChange({"0:01"})
  \/ HandleDraftEndInputChange({"0:02"})
  \/ HandleAddSegment
  \/ SetSelectedSegmentId
  \/ HandleSegmentPlay
  \/ HandleNextSegment
  \/ HandlePrevSegment
  \/ HandleRemoveSelected
  \/ HandleClearSegments
  \/ ApiResolve
  \/ PlayerReady

SpecPick == InitPick /\ [][NextPick]_vars

\* Start-up: the identifier comes from the address bar or from a link loaded
\* before the player is ready; once the player is ready the user does
\* nothing more and only the player acts (no timer is installed without a
\* change of the loop range).  The loader and the player's events are not
\* held back for ever.
StartLocations ==
  {Location(None, None), Location(Some(VideoA), None), Location(Some(VideoA), Some(PayloadLoops))}

InitStart == InitFrom(StartLocations)

NextStart ==
  \/ ApiResolve
  \/ ApiReject
  \/ PlayerReady
  \/ PlayerStateChange(PlayerStates)
  \/ (~readyRef /\ HandleInputChange(SyncTexts))
  \/ (~readyRef /\ HandleSubmit)
  \/ (~readyRef /\ HandleNextSegment)
  \/ (~readyRef /\ HandleToggleLooping)

SpecStart ==
  /\ InitStart
  /\ [][NextStart]_vars
  /\ WF_vars(ApiResolve \/ ApiReject)
  /\ WF_vars(PlayerReady)
  /\ WF_vars(PlayerStateChange(PlayerStates))

\* The controller's use of the player handle: a page opened with two
\* segments, the player created and ready at any point, playing or paused,
\* looping on or off, while the selection is changed in every way.
InitHandle == InitFrom({Location(Some(VideoA), Some(PayloadLoops))})

NextHandle ==
  \/ ApiResolve
  \/ PlayerReady
  \/ PlayerStateChange(PlayerStates)
  \/ HandleInputChange(SyncTexts)
  \/ HandleSubmit
  \/ HandleToggleLooping
  \/ HandleNextSegment
  \/ SetSelectedSegmentId
  \/ HandleSegmentPlay
  \/ HandleRemoveSelected
  \/ HandleDraftStartInputChange({"0:01"})
  \/ HandleDraftEndInputChange({"0:02"})
  \/ HandleAddSegment

SpecHandle == InitHandle /\ [][NextHandle]_vars

(***************************************************************************)
(* Properties.                                                             *)
(***************************************************************************)
\* the seeks among a sequence of commands
Seeks(cmds) == {i \in 1..Len(cmds) : cmds[i].op = "seekTo"}

\* the loop is due for a selection `segment` when the player is at `time`
LoopDue(enabled, segment, time) ==
  /\ enabled
  /\ segment # None
  /\ segment[1].end > segment[1].start
  /\ time >= segment[1].end - LOOP_THRESHOLD

\* every seek among cmds is the poll timer's, to the start of `segment`
SeeksToStart(cmds, segment) ==
  \A i \in Seeks(cmds) : segment # None /\ cmds[i] = SeekTo(segment[1].start, "poll")

\* C1: a poll tick that runs while a player reference exists seeks to the
\* selected segment's start, seek-ahead allowed, if and only if looping is
\* enabled, a segment with end > start is selected and the time read on the
\* tick is at least end - 0.15 s.
C1_PollSeeksIffDue ==
  [][(PollTick /\ playerRef) =>
       /\ (Seeks(commands') # {}) <=> LoopDue(loopingEnabled, selectedSegment(State), player.time)
       /\ SeeksToStart(commands', selectedSegment(State))]_vars

\* a tick read 1.9 s, 0.1 s before the end of the selected segment 1 s - 2 s,
\* and sought to 1 s
C1_Witness ==
  /\ commands = <<SeekTo(1000, "poll")>>
  /\ currentTime = 1900
  /\ player.time = 1000
  /\ loopingEnabled
  /\ selectedSegment(State) # None

\* C2: whenever the synchronizer is Ready (player created, ready event
\* received, not torn down) and an identifier is set, a poll timer is active.
C2_ReadyPolls ==
  (isMounted /\ playerRef /\ readyRef /\ videoId # None) => pollTimerRef # None

\* the draft, as the builder shows it
Draft == <<draftLabel, draftStart, draftEnd, draftStartInput, draftEndInput>>

\* C3: a commit of a draft that lacks a start or an end, or whose end - start
\* is below 0.2 s, is rejected: the segment list, the selection and the draft
\* stay as they are.
C3_ShortDraftRejected ==
  [][(/\ HandleAddSegment
      /\ \/ draftStart = None
         \/ draftEnd = None
         \/ draftEnd[1] - draftStart[1] < MIN_SEGMENT_LENGTH)
     => UNCHANGED <<loopSegments, selectedSegmentId, Draft>>]_vars

\* a draft of 1 s - 1.104 s over a list that holds a segment, about to be committed
C3_Witness ==
  /\ draftStart = Some(1000)
  /\ draftEnd = Some(1104)
  /\ loopSegments # <<>>
  /\ ENABLED HandleAddSegment

\* C4: in every reachable state the segment list is in ascending order of start.
C4_SortedByStart ==
  \A i, j \in 1..Len(loopSegments) :
    i < j => loopSegments[i].start <= loopSegments[j].start

\* the segment committed last (the largest id) stands between two decoded ones
C4_Witness ==
  /\ Len(loopSegments) = 3
  /\ loopSegments[2].id > loopSegments[1].id
  /\ loopSegments[2].id > loopSegments[3].id
  /\ loopSegments[1].start < loopSegments[2].start
  /\ loopSegments[2].start < loopSegments[3].start

\* C5: in every reachable state every segment has 0 <= start <= end.
C5_BoundsOrdered ==
  \A i \in 1..Len(loopSegments) :
    0 <= loopSegments[i].start /\ loopSegments[i].start <= loopSegments[i].end

\* the list holds a segment decoded from a negative start and swapped bounds and
\* a committed one whose end was clamped to the duration
C5_Witness ==
  /\ \E i \in 1..Len(loopSegments) :
       loopSegments[i].start = 0 /\ loopSegments[i].end = 1230
  /\ \E i \in 1..Len(loopSegments) :
       loopSegments[i].end = duration /\ duration = 1150

\* (label, start, end) of each segment, in the list's order
Triples(segments) ==
  [i \in 1..Len(segments) |-> <<segments[i].label, segments[i].start, segments[i].end>>]

PlaybackState == <<currentTime, duration, isPlaying, playbackRate, loopingEnabled>>

\* C6: a submission of text from which no identifier is extracted sets the
\* validation error and changes nothing else: identifier, segment list,
\* selection, draft, playback state, input text and dirty flag stay.
C6_FailedLoadOnlySetsError ==
  [][(HandleSubmit /\ extractYouTubeId(inputValue) = None)
     => /\ inputError' = Some(INPUT_ERROR)
        /\ UNCHANGED <<videoId, loopSegments, selectedSegmentId, Draft, PlaybackState,
                       inputValue, isInputDirty, location, nextId, player>>]_vars

\* the error is shown over a session that has a video, segments, a draft,
\* a changed speed and an edited link text
C6_Witness ==
  /\ inputError = Some(INPUT_ERROR)
  /\ videoId # None
  /\ loopSegments # <<>>
  /\ draftStart # None
  /\ draftLabel # ""
  /\ playbackRate # 1000
  /\ isPlaying
  /\ isInputDirty

\* the value of the `segments` parameter of a text, if it is a URL that has one
SegmentsParamOf(text) == IF IsUrl(text) THEN text.segments ELSE None

\* C7: a successful submission leaves the extracted identifier, the segment
\* list decoded from the input's segments parameter (empty when there is
\* none), the selection on the first decoded segment or none, an empty
\* draft, currentTime = 0, duration = 0, isPlaying = false and a clear dirty
\* flag.
C7_SuccessfulLoad ==
  [][(HandleSubmit /\ extractYouTubeId(inputValue) # None)
     => /\ videoId' = extractYouTubeId(inputValue)
        /\ Triples(loopSegments') = Triples(parseSegmentsParam(SegmentsParamOf(inputValue), 1))
        /\ selectedSegmentId' = IF loopSegments' = <<>> THEN None
                                ELSE Some(loopSegments'[1].id)
        /\ Draft' = <<"", None, None, "", "">>
        /\ currentTime' = 0
        /\ duration' = 0
        /\ isPlaying' = FALSE
        /\ isInputDirty' = FALSE
        /\ inputError' = None]_vars

\* a bare id was loaded over a session that had segments: the list is empty
\* and nothing is selected
C7_Witness ==
  /\ videoId = Some(VideoA)
  /\ location = Location(Some(VideoA), None)
  /\ loopSegments = <<>>
  /\ selectedSegmentId = None
  /\ nextId > 1
  /\ inputError = None
  /\ apiPromise = "resolved"

\* C8 as stated: for every list of segments with start <= end that is sorted
\* by start, decoding the encoded list yields the same (label, start, end)
\* triples in the same order.
C8_RoundTripAsStated ==
  (fnInput.kind = "segments" /\ fnOutput.stage = "decoded")
    => Triples(fnOutput.decoded) = Triples(fnInput.value)

\* a list the codec reproduces: every bound is finite, not negative and a
\* whole number of hundredths of a second, every label is not empty and has
\* no white space around it
Reproducible(L) ==
  \A i \in 1..Len(L) :
    /\ L[i].start >= 0
    /\ L[i].end < Infinity
    /\ L[i].start % 10 = 0
    /\ L[i].end % 10 = 0
    /\ L[i].label # ""
    /\ Trim(L[i].label) = L[i].label

\* C8, amended: for every list of segments with 0 <= start <= end that is
\* sorted by start, whose bounds are finite with at most two decimals and
\* whose labels are trimmed and not empty, decoding the encoded list yields
\* the same (label, start, end) triples in the same order.
C8_RoundTrip ==
  (fnInput.kind = "segments" /\ fnOutput.stage = "decoded" /\ Reproducible(fnInput.value))
    => Triples(fnOutput.decoded) = Triples(fnInput.value)

\* two segments with the same start and different ends went through the codec
C8_Witness ==
  /\ fnInput.kind = "segments"
  /\ fnOutput.stage = "decoded"
  /\ Reproducible(fnInput.value)
  /\ Len(fnInput.value) = 2
  /\ fnInput.value[1].start = fnInput.value[2].start
  /\ fnInput.value[1].end > fnInput.value[2].end
  /\ Len(fnOutput.decoded) = 2

\* C9: decode never throws: of an absent or empty value, of text that does
\* not parse and of parsed text whose top-level value is not a list it
\* returns the empty list, and a page opened with such a value has its video
\* and no segments.
C9_GarbageDecodesToEmpty ==
  (fnInput.kind = "param" /\ (fnInput.value = None \/ fnInput.value[1].json # "array"))
    => /\ fnOutput.stage = "decoded" => fnOutput.decoded = <<>>
       /\ fnOutput.stage = "opened" =>
            /\ fnOutput.session.loopSegments = <<>>
            /\ fnOutput.session.selectedSegmentId = None
            /\ fnOutput.session.videoId = Some(VideoA)

\* text that does not parse was decoded to the empty list
C9_Witness ==
  /\ fnInput.kind = "param"
  /\ fnInput.value = Some(JInvalid)
  /\ fnOutput.stage = "decoded"
  /\ fnOutput.decoded = <<>>

\* C10: extractYouTubeId returns none or a string of exactly 11 characters
\* from [A-Za-z0-9_-], whatever candidate the URL holds, and the controller's
\* identifier is none or such a string.
C10_OnlyPatternIds ==
  /\ fnOutput.stage = "extracted" =>
       (fnOutput.id = None \/ YOUTUBE_ID_PATTERN(fnOutput.id[1]))
  /\ videoId = None \/ YOUTUBE_ID_PATTERN(videoId[1])

\* a youtu.be link whose path segment does not match was refused
C10_Witness ==
  /\ IsUrl(fnInput)
  /\ fnInput.hostname = "youtu.be"
  /\ fnInput.pathname = "/abc"
  /\ fnOutput.stage = "extracted"
  /\ fnOutput.id = None
  /\ inputValue = fnInput
  /\ inputError = Some(INPUT_ERROR)
  /\ videoId = None

\* the rules of the extractor as they are stated.  The host is taken without a
\* leading "www."; a candidate is returned when it matches the pattern.
HostOf(text) == StripWww(text.hostname)

PathSegments(text) == FilterNonEmpty(Split(text.pathname, "/"))

FirstPathSegment(text) ==
  IF PathSegments(text) = <<>> THEN None ELSE Some(PathSegments(text)[1])

\* the path segment that follows the first segment equal to "embed"
EmbedCandidate(text) ==
  LET p == PathSegments(text)
      at == {i \in 1..Len(p) : p[i] = "embed" /\ \A j \in 1..(i - 1) : p[j] # "embed"}
  IN  IF \E i \in at : i < Len(p) THEN Some(p[(CHOOSE i \in at : TRUE) + 1]) ELSE None

Matching(candidate) ==
  IF candidate # None /\ YOUTUBE_ID_PATTERN(candidate[1]) THEN candidate ELSE None

TrimmedOpt(candidate) == IF candidate = None THEN None ELSE Some(Trim(candidate[1]))

\* the v parameter, trimmed, is the candidate whenever it is present (not empty)
StatedCandidate(text) ==
  IF ~IsUrl(text) THEN Some(Trim(text.raw))
  ELSE IF HostOf(text) = "youtu.be" THEN FirstPathSegment(text)
  ELSE IF HostOf(text) \in {"youtube.com", "m.youtube.com"} THEN
    IF text.v # None /\ text.v # Some("") THEN TrimmedOpt(text.v) ELSE EmbedCandidate(text)
  ELSE IF HostOf(text) = "youtube-nocookie.com" THEN EmbedCandidate(text)
  ELSE None

\* the v parameter is the candidate when, trimmed, it matches the pattern
FallingBackCandidate(text) ==
  IF ~IsUrl(text) THEN Some(Trim(text.raw))
  ELSE IF HostOf(text) = "youtu.be" THEN FirstPathSegment(text)
  ELSE IF HostOf(text) \in {"youtube.com", "m.youtube.com"} THEN
    IF Matching(TrimmedOpt(text.v)) # None THEN TrimmedOpt(text.v) ELSE EmbedCandidate(text)
  ELSE IF HostOf(text) = "youtube-nocookie.com" THEN EmbedCandidate(text)
  ELSE None

\* C11 as stated: extract returns a trimmed bare id unchanged; for youtu.be the
\* first non-empty path segment; for youtube.com and m.youtube.com the v
\* parameter, and the segment after `embed` only if v is absent; for
\* youtube-nocookie.com the segment after `embed`; none for any other host,
\* for a URL without a candidate, for a candidate that does not match the
\* pattern and for text that is no URL.
C11_RulesAsStated ==
  fnOutput.stage = "extracted" => fnOutput.id = Matching(StatedCandidate(fnInput))

\* C11, amended: as above, but for youtube.com and m.youtube.com the segment
\* after `embed` is the candidate whenever v is absent or, trimmed, does not
\* match the pattern.
C11_ExtractRules ==
  fnOutput.stage = "extracted" => fnOutput.id = Matching(FallingBackCandidate(fnInput))

\* an embed link without a v parameter gave the id that follows `embed`
C11_Witness ==
  /\ IsUrl(fnInput)
  /\ fnInput.hostname = "www.youtube.com"
  /\ fnInput.pathname = "/embed/" \o VideoA
  /\ fnInput.v = None
  /\ fnOutput.stage = "extracted"
  /\ fnOutput.id = Some(VideoA)

Fields(text) == Split(Trim(text), ":")

\* a decimal number: an optional sign, digits, an optional fraction
IsDecimal(field) == ~JsNumber(field).nan /\ IsFinite(JsNumber(field).n) /\ Trim(field) # ""

RECURSIVE WeightedSum(_)
WeightedSum(fields) ==
  IF Len(fields) = 1 THEN JsNumber(fields[1]).n
  ELSE 1000 * ParseNat(fields[1]) * Pow60(Len(fields) - 1)
         + WeightedSum(SubSeq(fields, 2, Len(fields)))

WellFormed(fields) ==
  /\ \A i \in 1..Len(fields) : fields[i] # ""
  /\ \A i \in 1..(Len(fields) - 1) : IsDigits(fields[i])
  /\ IsDecimal(fields[Len(fields)])

HundredthsOrNone(value) == value = None \/ (IsFinite(value[1]) /\ value[1] % 10 = 0)

\* C13: of text with ":" parse returns none if a field is empty, if a field
\* other than the rightmost is not one or more digits or if the rightmost is
\* not a decimal number; otherwise the sum of field x 60^(position from the
\* right), clamped to >= 0 and rounded to 2 decimals.
C13_ColonFields ==
  (fnInput.kind = "text" /\ Includes(Trim(fnInput.value), ":") /\ fnOutput.stage = "parsed")
    => fnOutput.value =
         IF WellFormed(Fields(fnInput.value))
         THEN Some(Max(0, Round2(WeightedSum(Fields(fnInput.value)))))
         ELSE None

\* C14: of non-empty trimmed text without ":" parse returns none when the text
\* is not a decimal number and otherwise the number clamped to >= 0 and rounded
\* to 2 decimals; every value parse returns and every draft bound set by a text
\* edit has at most 2 decimals.
C14_PlainNumberRounded ==
  /\ (fnInput.kind = "text" /\ Trim(fnInput.value) # ""
        /\ ~Includes(Trim(fnInput.value), ":") /\ fnOutput.stage = "parsed")
       => fnOutput.value =
            IF IsDecimal(fnInput.value)
            THEN Some(Max(0, Round2(JsNumber(fnInput.value).n)))
            ELSE None
  /\ fnOutput.stage = "parsed" => HundredthsOrNone(fnOutput.value)
  /\ fnInput.kind = "text" => HundredthsOrNone(draftStart) /\ HundredthsOrNone(draftEnd)

\* the id of the first segment of a list, none when it is empty
FirstIdOf(segments) == IF segments = <<>> THEN None ELSE Some(segments[1].id)

\* the next state holds the identifier and the triples of this one, with the
\* first segment selected
Restored ==
  /\ videoId' = videoId
  /\ Triples(loopSegments') = Triples(loopSegments)
  /\ selectedSegmentId' = FirstIdOf(loopSegments')

\* the canonical link of the session is in the link field
CanonicalInField ==
  videoId # None /\ inputValue = buildVideoLink(videoId[1], loopSegments)

\* every bound is finite and a whole number of hundredths of a second
TwoDecimals(segments) ==
  \A i \in 1..Len(segments) :
    /\ segments[i].end < Infinity
    /\ segments[i].start % 10 = 0
    /\ segments[i].end % 10 = 0

\* C15 as stated: from every reachable state, opening the page at the address
\* the controller wrote, and submitting the canonical link of the session,
\* both give the same identifier, the same (label, start, end) triples in the
\* same order and the first segment selected (none for an empty list).
C15_RestoresAsStated ==
  [][/\ Reload => Restored
     /\ (HandleSubmit /\ CanonicalInField) => Restored]_vars

\* C15, amended: the same, from every reachable state whose segments have
\* finite bounds with at most two decimals.
C15_Restores ==
  [][TwoDecimals(loopSegments) =>
       /\ Reload => Restored
       /\ (HandleSubmit /\ CanonicalInField) => Restored]_vars

\* the page was opened again with the second segment of a session, the first
\* having been removed: it is the first segment now and selected
C15_Witness ==
  /\ loopSegments = <<LoopSegment(1, "Loop 2", 1000, 2000)>>
  /\ selectedSegmentId = Some(1)
  /\ nextId = 2
  /\ location.segments # None

\* C16: in every state the address bar carries a `video` parameter equal to
\* the identifier exactly when one is set and a `segments` parameter equal to
\* the encoded segment list exactly when the list is not empty; the link that
\* stands in the link field carries the same segments parameter, or none.
C16_AddressBar ==
  /\ location.video = videoId
  /\ location.segments = serializeSegments(loopSegments)
  /\ (location.segments = None) <=> (loopSegments = <<>>)
  /\ (videoId # None /\ ~isInputDirty) =>
       /\ IsUrl(inputValue)
       /\ inputValue.v = location.video
       /\ inputValue.segments = location.segments

\* two segments were committed over a loaded video while the link field was
\* being edited: the address bar has both, the link field has the typed text
C16_Witness ==
  /\ location.video = Some(VideoB)
  /\ location.segments # None
  /\ Len(location.segments[1].items) = 2
  /\ isInputDirty
  /\ inputValue = PlainText("not a video")

\* C17: whenever an identifier is set and the dirty flag is clear the link
\* field holds build(identifier, segment list); a step that changes the
\* segment list while the dirty flag is and stays set leaves the link field's
\* text as it is.
C17_LinkFollowsState ==
  [][/\ (videoId # None /\ ~isInputDirty) => CanonicalInField
     /\ (videoId' # None /\ ~isInputDirty') => CanonicalInField'
     /\ (isInputDirty /\ isInputDirty' /\ loopSegments' # loopSegments)
          => inputValue' = inputValue]_vars

\* the link field shows the link of a loaded video with two committed segments
C17_Witness ==
  /\ ~isInputDirty
  /\ videoId = Some(VideoB)
  /\ IsUrl(inputValue)
  /\ inputValue.v = Some(VideoB)
  /\ inputValue.segments # None
  /\ Len(inputValue.segments[1].items) = 2
  /\ inputValue.segments[1].items[2].label = JStr("Loop 2")

\* C18 as stated: the dirty flag does not stay set once the link field's
\* value equals the canonical link.
C18_ClearedOnceCanonical == ~(isInputDirty /\ CanonicalInField)

\* C18, amended: every keystroke sets the dirty flag, also one after which
\* the field's value equals the canonical link; leaving the field clears it
\* when the value equals the canonical link or no identifier is set and
\* leaves it otherwise; a successful submission clears it; nothing else but
\* opening the page anew changes it.
C18_DirtyFlag ==
  [][/\ HandleInputChange(LinkTexts) => isInputDirty'
     /\ HandleInputBlur => (isInputDirty' = (isInputDirty /\ videoId # None /\ ~CanonicalInField))
     /\ (HandleSubmit /\ extractYouTubeId(inputValue) # None) => ~isInputDirty'
     /\ (isInputDirty' # isInputDirty)
          => (HandleInputChange(LinkTexts) \/ HandleInputBlur \/ HandleSubmit \/ Reload)]_vars

\* the canonical link was typed into the field: the flag is set
C18_Witness ==
  /\ isInputDirty
  /\ videoId = Some(VideoB)
  /\ loopSegments # <<>>
  /\ inputValue = buildVideoLink(VideoB, loopSegments)

\* the position of the selected segment in the list, 0 when nothing is selected
PositionOf(segments, selection) ==
  IF \E i \in 1..Len(segments) : selection = Some(segments[i].id)
  THEN CHOOSE i \in 1..Len(segments) : selection = Some(segments[i].id)
  ELSE 0

\* cyclic successor and predecessor of position i among n >= 1; from 0 the
\* first and the last
NextPosition(n, i) == IF i = 0 \/ i = n THEN 1 ELSE i + 1
PrevPosition(n, i) == IF i = 0 \/ i = 1 THEN n ELSE i - 1

RECURSIVE NextTimes(_, _)
NextTimes(s, k) == IF k = 0 THEN s ELSE NextTimes(handleNextSegment(s), k - 1)

\* C19: selectNext selects the cyclic successor of the selected segment in
\* the list's order and the first segment when nothing is selected,
\* selectPrevious the cyclic predecessor and the last segment when nothing is
\* selected; on an empty list both change nothing; from a selected segment
\* of a list of n, n times next, and next followed by previous, return to it.
C19_CyclicNavigation ==
  [][/\ HandleNextSegment =>
          /\ loopSegments # <<>>
          /\ selectedSegmentId' =
               Some(loopSegments[NextPosition(Len(loopSegments),
                                              PositionOf(loopSegments, selectedSegmentId))].id)
          /\ UNCHANGED loopSegments
     /\ HandlePrevSegment =>
          /\ loopSegments # <<>>
          /\ selectedSegmentId' =
               Some(loopSegments[PrevPosition(Len(loopSegments),
                                              PositionOf(loopSegments, selectedSegmentId))].id)
          /\ UNCHANGED loopSegments
     /\ loopSegments = <<>> =>
          /\ handleNextSegment(State) = State
          /\ handlePrevSegment(State) = State
     /\ PositionOf(loopSegments, selectedSegmentId) # 0 =>
          /\ NextTimes(State, Len(loopSegments)).selectedSegmentId = selectedSegmentId
          /\ handlePrevSegment(handleNextSegment(State)).selectedSegmentId = selectedSegmentId]_vars

\* the first of three segments is selected and the second is the one committed
\* last: the selection came there by next from the last or previous from the second
C19_Witness ==
  /\ Len(loopSegments) = 3
  /\ loopSegments[2].id = 3
  /\ loopSegments[1].start = loopSegments[2].start
  /\ selectedSegmentId = Some(loopSegments[1].id)

\* `after` is `before` without its k-th segment
WithoutKth(before, after, k) ==
  after = SubSeq(before, 1, k - 1) \o SubSeq(before, k + 1, Len(before))

\* r is s with the identifier and the draft as they were
SameVideoAndDraft(s, r) ==
  /\ r.videoId = s.videoId
  /\ r.draftLabel = s.draftLabel
  /\ r.draftStart = s.draftStart
  /\ r.draftEnd = s.draftEnd
  /\ r.draftStartInput = s.draftStartInput
  /\ r.draftEndInput = s.draftEndInput

\* C20: remove(id) deletes exactly the segment with that id and keeps the
\* others in their order, clears the selection if that segment was selected
\* and leaves it otherwise; clearAll empties the list and clears the
\* selection; neither changes the identifier or the draft.
C20_RemoveAndClear ==
  [][/\ \A k \in 1..Len(loopSegments) :
          /\ WithoutKth(loopSegments,
                        handleRemoveSegment(State, loopSegments[k].id).loopSegments, k)
          /\ handleRemoveSegment(State, loopSegments[k].id).selectedSegmentId =
               IF selectedSegmentId = Some(loopSegments[k].id) THEN None ELSE selectedSegmentId
          /\ SameVideoAndDraft(State, handleRemoveSegment(State, loopSegments[k].id))
     /\ HandleRemoveSelected =>
          /\ WithoutKth(loopSegments, loopSegments', PositionOf(loopSegments, selectedSegmentId))
          /\ selectedSegmentId' = None
          /\ UNCHANGED <<videoId, Draft>>
     /\ HandleClearSegments =>
          /\ loopSegments' = <<>>
          /\ selectedSegmentId' = None
          /\ UNCHANGED <<videoId, Draft>>]_vars

\* the committed segment was removed from between two others while a new
\* draft was being typed: nothing is selected, the draft is there
C20_Witness ==
  /\ Len(loopSegments) = 2
  /\ selectedSegmentId = None
  /\ nextId = 4
  /\ videoId = Some(VideoA)
  /\ draftStart = Some(1000)
  /\ draftLabel = " Riff "

\* a bound clamped into [0, duration] when the duration is known
ClampedInto(bound, total) ==
  IF total > 0
  THEN (IF bound < 0 THEN 0 ELSE IF bound > total THEN total ELSE bound)
  ELSE bound

\* the label a commit gives: the draft's, trimmed, or "Loop {count + 1}"
CommittedLabel(label, count) ==
  IF Trim(label) = "" THEN "Loop " \o ToString(count + 1) ELSE Trim(label)

\* `segments` is in ascending order of start
SortedByStart(segments) ==
  \A i, j \in 1..Len(segments) : i < j => segments[i].start <= segments[j].start

\* C21: a permitted commit adds exactly one segment: its bounds are the
\* draft's, clamped into [0, duration] when duration > 0 and as they are when
\* the duration is unknown; its label is the draft's label trimmed, or
\* "Loop {count + 1}" when that is blank; the list stays sorted by start, the
\* new segment is the selection and the draft is empty.
C21_CommitAddsOne ==
  [][(/\ HandleAddSegment
      /\ draftStart # None
      /\ draftEnd # None
      /\ draftEnd[1] - draftStart[1] >= MIN_SEGMENT_LENGTH)
     => /\ \E k \in 1..Len(loopSegments') :
             /\ WithoutKth(loopSegments', loopSegments, k)
             /\ loopSegments'[k].label = CommittedLabel(draftLabel, Len(loopSegments))
             /\ loopSegments'[k].start = ClampedInto(draftStart[1], duration)
             /\ loopSegments'[k].end = ClampedInto(draftEnd[1], duration)
             /\ \A i \in 1..Len(loopSegments) : loopSegments[i].id # loopSegments'[k].id
             /\ selectedSegmentId' = Some(loopSegments'[k].id)
        /\ SortedByStart(loopSegments')
        /\ Draft' = <<"", None, None, "", "">>]_vars

\* a draft 1 s - 2 s labelled " Riff " was committed while the duration was
\* 1.5 s, after a segment that got the default label: it is selected and
\* ends at 1.5 s
C21_Witness ==
  /\ duration = 1500
  /\ Len(loopSegments) = 3
  /\ \E i \in 1..3 : loopSegments[i].label = "Loop 2"
  /\ \E i \in 1..3 :
       /\ loopSegments[i] = LoopSegment(3, "Riff", 1000, 1500)
       /\ selectedSegmentId = Some(3)
  /\ Draft = <<"", None, None, "", "">>

\* playback times a mark may be taken at: ones that round up into the next
\* second, the next minute and the next hour among them
MarkTimes == {0, 4, 1234, 996, 59996, 3599996}

\* in r, the state after a mark at `time`, the marked bound is the time in
\* hundredths and both bounds are what their texts parse to
MarkedConsistently(r, time) ==
  /\ Some(((time + 5) \div 10) * 10) \in {r.draftStart, r.draftEnd}
  /\ r.draftStart = parseTimestampInput(r.draftStartInput)
  /\ r.draftEnd = parseTimestampInput(r.draftEndInput)

\* C22: in every reachable state the draft's numbers are what its texts parse
\* to (none for an empty text and for a text that is no time): after text
\* edits, after markStart and markEnd (the playback time rounded to 2
\* decimals, with its text), after reset, commit and load.
C22_DraftConsistent ==
  /\ draftStart = parseTimestampInput(draftStartInput)
  /\ draftEnd = parseTimestampInput(draftEndInput)
  /\ \A time \in MarkTimes :
       /\ MarkedConsistently(handleMarkStart([State EXCEPT !.currentTime = time]), time)
       /\ MarkedConsistently(handleMarkEnd([State EXCEPT !.currentTime = time]), time)

\* the start was marked at a playback time of 1.234 s, the end was typed as a
\* plain number, and a segment has been committed before
C22_Witness ==
  /\ currentTime = 1234
  /\ draftStart = Some(1230)
  /\ draftStartInput = "00:01.23"
  /\ draftEnd = Some(1104)
  /\ draftEndInput = "1.104"
  /\ loopSegments # <<>>

\* C23: teardown cancels the poll timer, destroys and drops the player and
\* clears the ready flag, and it stays so: after disposal no poll timer is
\* active, the player reference is none and the ready flag is false, also
\* when a ready or stateChange event of the player arrives after disposal.
C23_TornDownStays ==
  ~isMounted => (pollTimerRef = None /\ ~playerRef /\ ~readyRef)

\* what the synchronizer holds: player reference, ready flag, poll timer
Synchronizer == <<playerRef, readyRef, pollTimerRef>>

\* C24: when the player API resolves after the synchronizer was disposed, no
\* player is created and player reference, ready flag and poll timer stay as
\* they are; however disposal and resolution interleave, a player is created
\* only where none was created before, and none is live after disposal.
C24_ResolveAfterDisposal ==
  [][/\ (ApiResolve /\ ~isMounted) => UNCHANGED <<Synchronizer, player>>
     /\ (ApiResolve /\ isMounted) => (player.exists = "none" /\ player'.exists = "live")
     /\ player.exists # "none" => (player'.exists # "none" /\ ~ENABLED ApiResolve)
     /\ ~isMounted' => (player'.exists # "live" /\ ~playerRef')]_vars

\* the API resolved after the disposal: no player was ever created
C24_Witness ==
  /\ ~isMounted
  /\ apiPromise = "resolved"
  /\ player.exists = "none"
  /\ Synchronizer = <<FALSE, FALSE, None>>

\* the controller's state
Controller ==
  <<inputValue, videoId, inputError, loopSegments, selectedSegmentId, Draft,
    PlaybackState, isInputDirty, location, nextId>>

\* C25: a failed initialization of the player API leaves the synchronizer
\* uninitialized (no player reference, ready flag false, no poll timer) and
\* changes nothing else; afterwards every operation of the controller still
\* does its work (load, mark, commit, navigation, remove, clear, toggle play)
\* and nothing is asked of a player.
C25_FailedInitialization ==
  [][/\ ApiReject => UNCHANGED <<Controller, isMounted, Synchronizer, player>>
     /\ apiPromise = "rejected" =>
          /\ apiPromise' = "rejected"
          /\ Synchronizer' = <<FALSE, FALSE, None>>
          /\ player' = NoPlayer
          /\ commands' = <<>>
          /\ HandleSubmit =>
               IF extractYouTubeId(inputValue) = None
               THEN inputError' = Some(INPUT_ERROR)
               ELSE videoId' = extractYouTubeId(inputValue) /\ inputError' = None
          /\ HandleMarkStart => draftStart' = Some(currentTime)
          /\ HandleMarkEnd => draftEnd' = Some(currentTime)
          /\ (HandleAddSegment /\ draftStart = Some(0) /\ draftEnd = Some(2000)) =>
               (Len(loopSegments') = Len(loopSegments) + 1 /\ selectedSegmentId' = Some(nextId))
          /\ (HandleNextSegment /\ loopSegments # <<>>) => selectedSegmentId' # None
          /\ (HandlePrevSegment /\ loopSegments # <<>>) => selectedSegmentId' # None
          /\ (HandleRemoveSelected /\ selectedSegmentId # None) =>
               Len(loopSegments') = Len(loopSegments) - 1
          /\ HandleClearSegments => loopSegments' = <<>>
          /\ HandleTogglePlay => UNCHANGED Controller]_vars

\* after the failure a link was loaded, a draft marked and typed was
\* committed and selected; no player, no timer
C25_Witness ==
  /\ apiPromise = "rejected"
  /\ videoId = Some(VideoB)
  /\ Len(loopSegments) = 2
  /\ selectedSegmentId = Some(nextId - 1)
  /\ \E i \in 1..2 : loopSegments[i] = LoopSegment(nextId - 1, "Loop 2", 0, 2000)
  /\ Synchronizer = <<FALSE, FALSE, None>>
  /\ player = NoPlayer

\* C26: after a failed initialization of the player API, loading an
\* identifier starts a new attempt, so that the synchronizer can still
\* become ready in the same session.
C26_LoadRetries ==
  [][(HandleSubmit /\ apiPromise = "rejected" /\ inputError' = None)
     => apiPromise' = "pending"]_vars

\* the commands of a step that reach a player other than the cleanup's destroy
Issued(cmds) == {i \in 1..Len(cmds) : cmds[i].op # "destroy"}

\* C27: a player command (play, pause, seekTo, setPlaybackRate, the cue or
\* stop of an identifier change, the playback-rate update, the loop seek, the
\* poll tick) issued while the player is unavailable, before readiness or
\* after teardown, is a no-op: nothing is asked of a player and its state
\* stays as it is.
C27_UnavailableNoOps ==
  [][((~playerRef \/ ~readyRef) /\ ~ApiResolve /\ ~PlayerReady /\ ~LatePlayerReady)
     => (Issued(commands') = {} /\ player'.time = player.time /\ player'.video_id = player.video_id)]_vars

\* the selection moves from one segment to a different one
SelectionMoves(before, after) ==
  /\ before # None
  /\ after # None
  /\ before[1].id # after[1].id

\* C28: while the synchronizer is ready and looping is enabled, every change
\* of the selection from one segment to a different one makes the
\* synchronizer seek to the new segment's start in that same step, before
\* any poll tick, whichever the two segments are, two that start at the same
\* time included.
C28_SynchronizerSeeks ==
  [][(/\ isMounted /\ playerRef /\ readyRef
      /\ loopingEnabled /\ loopingEnabled'
      /\ SelectionMoves(selectedSegment(State), selectedSegment(State)'))
     => \E i \in Seeks(commands') :
          commands'[i] = SeekTo(selectedSegment(State)'[1].start, "loopEffect")]_vars

\* the commands among cmds that the identifier effect issued
FromVideoEffect(cmds) == SelectSeq(cmds, LAMBDA cmd : cmd.by = "videoEffect")

\* C29: on every change of the identifier while the synchronizer is ready, a
\* new identifier that differs from the player's loaded media is cued and
\* playback is not started; one that equals the loaded media has nothing
\* issued; an absent one has playback stopped.
C29_IdentifierChange ==
  [][(isMounted /\ playerRef /\ readyRef) =>
       /\ videoEffect(Cleared, [Cleared EXCEPT !.videoId = None]).commands
            = <<StopVideo("videoEffect")>>
       /\ videoEffect(Cleared, [Cleared EXCEPT !.videoId = player.video_id]).commands
            = IF player.video_id = None THEN <<StopVideo("videoEffect")>> ELSE <<>>
       /\ (videoId' # videoId /\ videoId' # None /\ videoId' # player.video_id) =>
            /\ FromVideoEffect(commands') = <<CueVideoById(videoId'[1], "videoEffect")>>
            /\ commands'[1] = CueVideoById(videoId'[1], "videoEffect")
            /\ player'.video_id = videoId'
            /\ selectedSegment(State)' = None => Len(commands') = 1]_vars

\* a bare id was loaded over another video while the player was ready: it
\* was cued and nothing else was asked of the player
C29_Witness ==
  /\ readyRef
  /\ videoId = Some(VideoA)
  /\ player.video_id = Some(VideoA)
  /\ commands = <<CueVideoById(VideoA, "videoEffect")>>
  /\ nextId > 1
  /\ loopSegments = <<>>

\* C30: every poll tick overwrites the controller's currentTime and duration
\* with the values read from the player on that tick, so that after a tick
\* the controller's duration is the player's.
C30_TickOverwritesBoth ==
  [][(PollTick /\ playerRef) =>
       (currentTime' = player.time /\ duration' = player.duration)]_vars

\* C30, amended: every poll tick overwrites currentTime with the time read on
\* that tick, and duration with the duration read on that tick when that is
\* above 0; a tick that reads a duration of 0 leaves the duration as it is.
C30_TickOverwrites ==
  [][(PollTick /\ playerRef) =>
       /\ currentTime' = player.time
       /\ duration' = IF player.duration > 0 THEN player.duration ELSE duration]_vars

\* a tick read 2.5 s and no duration: the time is stored, the duration of
\* 6 s read by an earlier tick is kept
C30_Witness ==
  /\ currentTime = 2500
  /\ duration = 6000
  /\ player.duration = 0
  /\ player.time = 2500

\* The reference sanitizer of one element of a decoded list.
Coerced(value) ==
  IF JsonToNumber(value).nan \/ ~IsFinite(JsonToNumber(value).n) THEN None
  ELSE Some(JsonToNumber(value).n)

Survives(entry) ==
  entry.json = "object" /\ Coerced(entry.start) # None /\ Coerced(entry.end) # None

\* clamped to >= 0 and rounded to the nearest hundredth of a second
StatedBound(value) ==
  IF Coerced(value)[1] <= 0 THEN 0
  ELSE CHOOSE h \in 0..(Coerced(value)[1] + 10) :
         h % 10 = 0 /\ h - 5 <= Coerced(value)[1] /\ Coerced(value)[1] < h + 5

StatedLabel(entry, k) ==
  IF entry.label.json = "string" /\ Trim(entry.label.s) # "" THEN Trim(entry.label.s)
  ELSE "Loop " \o ToString(k)

StatedTriple(entry, k) ==
  <<StatedLabel(entry, k),
    Min(StatedBound(entry.start), StatedBound(entry.end)),
    Max(StatedBound(entry.start), StatedBound(entry.end))>>

DecodedAsStated(items, out) ==
  /\ Len(out) = Cardinality({k \in 1..Len(items) : Survives(items[k])})
  /\ \A j \in 1..(Len(out) - 1) : out[j][2] <= out[j + 1][2]
  /\ \E p \in [1..Len(out) -> {k \in 1..Len(items) : Survives(items[k])}] :
       /\ \A i, j \in 1..Len(out) : p[i] = p[j] => i = j
       /\ \A j \in 1..Len(out) : out[j] = StatedTriple(items[p[j]], p[j])

\* C31: decode of a list drops the elements that are not objects and those
\* whose start or end does not coerce to a finite number and keeps every
\* other; a kept element has start and end clamped to >= 0, rounded to two
\* decimals and ordered, and the trimmed label, or "Loop k" for a label that
\* is not text or is blank, k the element's 1-based position in the list
\* given; the kept elements come sorted ascending by start.  A page opened
\* with the list holds the same segments.
C31_DecodeSanitizes ==
  (fnInput.kind = "param" /\ fnInput.value # None /\ fnInput.value[1].json = "array")
    => /\ fnOutput.stage = "decoded" =>
            DecodedAsStated(fnInput.value[1].items, Triples(fnOutput.decoded))
       /\ fnOutput.stage = "opened" =>
            DecodedAsStated(fnInput.value[1].items, Triples(fnOutput.session.loopSegments))

\* of three elements the second was dropped, the third was labelled by its
\* position and sorted before the first, whose bounds were swapped
C31_Witness ==
  /\ fnInput.kind = "param"
  /\ fnInput.value = Some(PayloadSwapped)
  /\ fnOutput.stage = "decoded"
  /\ Triples(fnOutput.decoded) = <<<<"Loop 3", 0, 1230>>, <<"B", 2000, 5000>>>>

\* a field of the clock display: at least two digits
TwoDigits(n) == IF n < 10 THEN "0" \o ToString(n) ELSE ToString(n)

\* whole seconds s as [hh:]mm:ss
ClockText(s) ==
  (IF s >= 3600 THEN TwoDigits(s \div 3600) \o ":" ELSE "")
    \o TwoDigits((s % 3600) \div 60) \o ":" \o TwoDigits(s % 60)

\* the whole seconds in a time of n milliseconds, n >= 0
WholeSeconds(n) == CHOOSE s \in 0..(n \div 1000 + 1) : 1000 * s <= n /\ n < 1000 * (s + 1)

\* C32: format returns "00:00" for none, NaN, a number that is not finite
\* and a negative number; otherwise it floors to whole seconds and writes
\* mm:ss when the hours are 0 and hh:mm:ss when they are not, every field
\* with at least two digits, minutes and seconds below 60.
C32_ClockFormat ==
  fnOutput.stage = "clock" =>
    fnOutput.text =
      IF ClockValue = None \/ ClockValue[1].nan THEN "00:00"
      ELSE IF ~IsFinite(ClockValue[1].n) \/ ClockValue[1].n < 0 THEN "00:00"
      ELSE ClockText(WholeSeconds(ClockValue[1].n))

\* format(3725) = "01:02:05"
C32_Witness ==
  /\ fnInput.kind = "clock"
  /\ fnInput.value = Some(Num(3725000))
  /\ fnOutput.stage = "clock"
  /\ fnOutput.text = "01:02:05"

\* the same (label, start, end) triples in the same order under other ids
Reidentified(segments) ==
  [i \in 1..Len(segments) |-> [segments[i] EXCEPT !.id = 10 + Len(segments) - i]]

IdsOf(segments) == {segments[i].id : i \in 1..Len(segments)}

\* every id is one the generator handed out from `first` on, none is repeated
FreshIds(segments, first) ==
  IdsOf(segments) = first..(first + Len(segments) - 1)

\* C33: two segment lists with the same (label, start, end) triples in the
\* same order and different ids have the same encoding, the same link text
\* and the same address-bar parameters; decode gives every surviving
\* element an id of the generator's, whatever `id` the input carries.
C33_IdsNotPersisted ==
  /\ (fnInput.kind = "segments" /\ fnOutput.stage = "encoded") =>
       /\ fnOutput.encoded = serializeSegments(Reidentified(fnInput.value))
       /\ buildVideoLink(VideoA, fnInput.value)
            = buildVideoLink(VideoA, Reidentified(fnInput.value))
       /\ addressEffect(State, [State EXCEPT !.loopSegments = fnInput.value]).location
            = addressEffect(State, [State EXCEPT !.loopSegments = Reidentified(fnInput.value)]).location
  /\ fnOutput.stage = "decoded" => FreshIds(fnOutput.decoded, 1)
  /\ fnOutput.stage = "opened" =>
       /\ FreshIds(fnOutput.session.loopSegments, 1)
       /\ fnOutput.session.nextId = 1 + Len(fnOutput.session.loopSegments)

\* two elements carrying the id 7 were decoded: the ids are the generator's
C33_Witness ==
  /\ fnInput.kind = "param"
  /\ fnInput.value = Some(PayloadIdentified)
  /\ fnOutput.stage = "decoded"
  /\ Len(fnOutput.decoded) = 2
  /\ fnOutput.decoded[1].id = 2
  /\ fnOutput.decoded[2].id = 1

\* C34: in every state at most one interval is active, and it is the one the
\* timer reference holds: none while the reference is empty and none after
\* teardown; every step that installs an interval leaves exactly that one
\* active, so poll ticks come from one timer at a time.
C34_OneTimer ==
  /\ Len(intervals) <= 1
  /\ pollTimerRef = None => intervals = <<>>
  /\ pollTimerRef # None => intervals = <<pollTimerRef[1]>>
  /\ ~isMounted => intervals = <<>>

\* the selection moved on and looping was switched off after a tick: the
\* interval now active replaced the one installed before it
C34_Witness ==
  /\ isMounted
  /\ Len(loopSegments) = 2
  /\ selectedSegmentId = Some(loopSegments[2].id)
  /\ ~loopingEnabled
  /\ currentTime > 0
  /\ intervals = <<Closure(FALSE, loopRange(State))>>

\* the step changes the selected segment or the looping flag
RangeChanges == selectedSegment(State)' # selectedSegment(State) \/ loopingEnabled' # loopingEnabled

\* every seek among cmds goes to the start of `segment`
SeeksTarget(cmds, segment) ==
  \A i \in Seeks(cmds) : segment # None /\ cmds[i].seconds = segment[1].start

\* C35: after every step, a change of the selection or of the looping flag
\* included, every active interval evaluates the loop range and the looping
\* flag of the controller's state as it then is; a poll tick seeks only to
\* the start of the segment selected when it fires, only while looping is
\* enabled and the time read has reached that segment's end less 0.15 s;
\* and the seeks issued by a change go to the start a tick would seek to.
C35_TicksSeeCurrentRange ==
  [][/\ \A i \in 1..Len(intervals') : intervals'[i] = PollClosure(State)'
     /\ PollTick =>
          /\ SeeksTarget(commands', selectedSegment(State))
          /\ Seeks(commands') # {} =>
               LoopDue(loopingEnabled, selectedSegment(State), player.time)
     /\ RangeChanges =>
          /\ SeeksTarget(commands', selectedSegment(State)')
          /\ \A i \in 1..Len(intervals') :
               Seeks(commands') # {} =>
                 intervals'[i].loopStart = Some(commands'[CHOOSE k \in Seeks(commands') : TRUE].seconds)
    ]_vars

\* the selection moved from the segment 1 s - 2 s to the segment 1 s - 3 s;
\* a tick that read 2.9 s sought to 1 s
C35_Witness ==
  /\ Len(loopSegments) = 2
  /\ loopSegments[2].end = 3000
  /\ selectedSegmentId = Some(loopSegments[2].id)
  /\ loopingEnabled
  /\ currentTime = 2900
  /\ commands = <<SeekTo(1000, "poll")>>

\* C36: every segment a commit inserts into the list has end - start >= 0.2 s,
\* measured on the stored segment, after its bounds were clamped into
\* [0, duration].
C36_StoredMinimum ==
  [][HandleAddSegment =>
       \A k \in 1..Len(loopSegments') :
         (\A i \in 1..Len(loopSegments) : loopSegments[i].id # loopSegments'[k].id)
           => loopSegments'[k].end - loopSegments'[k].start >= MIN_SEGMENT_LENGTH]_vars

\* a segment of the list has these bounds
ListedRange(segments, start, end) ==
  \E i \in 1..Len(segments) : start = Some(segments[i].start) /\ end = Some(segments[i].end)

\* C37: in every state the selection is none or the id of a segment of the
\* list, and the loop range handed to the synchronizer, also the one an
\* active poll timer holds, is none or the range of a segment of the list.
C37_NoDanglingSelection ==
  /\ selectedSegmentId # None =>
       \E i \in 1..Len(loopSegments) : loopSegments[i].id = selectedSegmentId[1]
  /\ loopStart(State) # None => ListedRange(loopSegments, loopStart(State), loopEnd(State))
  /\ \A k \in 1..Len(intervals) :
       intervals[k].loopStart # None =>
         ListedRange(loopSegments, intervals[k].loopStart, intervals[k].loopEnd)

\* a segment was committed over a loaded link's segment and then removed:
\* the link's segment stays, nothing is selected
C37_Witness ==
  /\ videoId = Some(VideoB)
  /\ Len(loopSegments) = 1
  /\ nextId > loopSegments[1].id + 1
  /\ selectedSegmentId = None
  /\ player.readyFired

\* C38: when an identifier is set while the player is ready, the player
\* eventually holds that identifier as its loaded media, the user doing
\* nothing more.
C38_EventuallyCued ==
  (isMounted /\ readyRef /\ videoId # None) ~> (player.video_id = videoId)

\* the call sites of the controller, which reach the player through the handle
ControllerSites == {"selectEffect", "togglePlay", "segmentPlay"}

\* cmds holds the select effect's seek to `start` with its play right after it
SeekThenPlay(cmds, start) ==
  \E i \in 1..(Len(cmds) - 1) :
    cmds[i] = SeekTo(start, "selectEffect") /\ cmds[i + 1] = PlayVideo("selectEffect")

\* C39: on every step that changes the selected segment while the player
\* exists, the controller asks for a seek to the new segment's start and
\* then for play, whether looping is on or off and whether the player is
\* playing or paused; when the selection becomes none the controller asks
\* nothing of the player.
C39_SelectionSeeksAndPlays ==
  [][(isMounted /\ playerRef /\ selectedSegment(State)' # selectedSegment(State)) =>
       IF selectedSegment(State)' # None
       THEN SeekThenPlay(commands', selectedSegment(State)'[1].start)
       ELSE \A i \in 1..Len(commands') : commands'[i].by \notin ControllerSites]_vars

\* the selection moved to the segment at 3 s while looping was off and the
\* player paused: seek to 3 s, then play
C39_Witness ==
  /\ ~loopingEnabled
  /\ ~isPlaying
  /\ player.readyFired
  /\ commands = <<SeekTo(3000, "selectEffect"), PlayVideo("selectEffect")>>

\* C40: in every state a non-empty segment list implies that an identifier
\* is set: without an identifier there are no segments, no selection and no
\* `segments` parameter in the address bar.
C40_SegmentsNeedVideo ==
  videoId = None =>
    /\ loopSegments = <<>>
    /\ selectedSegmentId = None
    /\ location.segments = None

====
